---- MODULE Spec2Model ----
(***************************************************************************)
(* Server-side conversion event pipeline of cogs-automation: the order,    *)
(* checkout and customer webhook handlers, the CAPIService event builders  *)
(* and the CAPI transport (axios.post to the Graph API).                   *)
(*                                                                         *)
(* Conventions of the model                                                *)
(*  - a JavaScript string is a sequence of tokens: single characters, or   *)
(*    a literal of the source kept whole ("shopify", "undefined");          *)
(*  - an optional value (undefined / null / missing property) is a set:    *)
(*    None = {} and Some(v) = {v};                                         *)
(*  - a JavaScript number that may be NaN is a record [nan, v];            *)
(*    money is counted in cents (two fraction digits);                     *)
(*  - SHA-256 is idealised as an injective constructor (no collisions).    *)
(***************************************************************************)
EXTENDS Integers, Sequences, FiniteSets, TLC

(***************************************************************************)
(* Bounds of the model.                                                    *)
(***************************************************************************)
MaxDeliveries == 2
MaxTicks == 1
MaxRequests == 2
MaxLen == 3
MaxRuns == 2
MaxCampaigns == 2

\* The first clock reading (milliseconds since epoch) of a run: one tick
\* before a whole second, so that flooring to seconds is observable.
StartNow == 1999

(***************************************************************************)
(* Optional values and numbers.                                            *)
(***************************************************************************)
None == {}
Some(v) == {v}
IsSome(o) == o # {}
Get(o) == CHOOSE v \in o : TRUE

NaN == [nan |-> TRUE, v |-> 0]
Num(n) == [nan |-> FALSE, v |-> n]

(***************************************************************************)
(* Strings.                                                                *)
(***************************************************************************)
Digits == <<"0", "1", "2", "3", "4", "5", "6", "7", "8", "9">>
IsDigit(c) == \E i \in 1..10 : Digits[i] = c
DigitVal(c) == (CHOOSE i \in 1..10 : Digits[i] = c) - 1
IsSpace(c) == c = " "

\* Number.prototype.toString() of a non-negative integer.
RECURSIVE toString(_)
toString(n) ==
  IF n < 10 THEN <<Digits[n + 1]>>
  ELSE toString(n \div 10) \o <<Digits[(n % 10) + 1]>>

\* A template literal ${x} of an optional number: "undefined" when missing.
Interpolate(o) == IF IsSome(o) THEN toString(Get(o)) ELSE <<"undefined">>

\* String.prototype.toLowerCase()
LowerChar(c) ==
  IF c = "A" THEN "a" ELSE IF c = "B" THEN "b" ELSE IF c = "C" THEN "c" ELSE c
ToLowerCase(s) == [i \in 1..Len(s) |-> LowerChar(s[i])]

\* String.prototype.trim()
RECURSIVE TrimStart(_)
TrimStart(s) ==
  IF s # <<>> /\ IsSpace(Head(s)) THEN TrimStart(Tail(s)) ELSE s
RECURSIVE TrimEnd(_)
TrimEnd(s) ==
  IF s # <<>> /\ IsSpace(s[Len(s)]) THEN TrimEnd(SubSeq(s, 1, Len(s) - 1)) ELSE s
Trim(s) == TrimEnd(TrimStart(s))

\* crypto.createHash('sha256').update(s).digest('hex')
Sha256Hex(s) == <<"sha256:">> \o s

\* parseFloat(s): skips leading white space, reads the longest decimal
\* prefix (digits, optionally a point and fraction digits), NaN when the
\* prefix holds no digit.  The result is in cents.
RECURSIVE DigitPrefixLen(_)
DigitPrefixLen(s) ==
  IF s # <<>> /\ IsDigit(Head(s)) THEN 1 + DigitPrefixLen(Tail(s)) ELSE 0
RECURSIVE DigitsValue(_)
DigitsValue(s) ==
  IF s = <<>> THEN 0
  ELSE 10 * DigitsValue(SubSeq(s, 1, Len(s) - 1)) + DigitVal(s[Len(s)])
FractionCents(f) ==
  IF Len(f) = 0 THEN 0
  ELSE IF Len(f) = 1 THEN 10 * DigitVal(f[1])
  ELSE 10 * DigitVal(f[1]) + DigitVal(f[2])
ParseFloat(str) ==
  LET s == TrimStart(str)
      n == DigitPrefixLen(s)
      rest == SubSeq(s, n + 1, Len(s))
      hasPoint == rest # <<>> /\ Head(rest) = "."
      frac == IF hasPoint THEN Tail(rest) ELSE <<>>
      m == DigitPrefixLen(frac)
  IN IF n = 0 /\ m = 0 THEN NaN
     ELSE Num(100 * DigitsValue(SubSeq(s, 1, n)) + FractionCents(SubSeq(frac, 1, m)))

\* new Date(s).getTime() for the timestamps of the model: milliseconds
\* since epoch of an ISO-8601 string, NaN for anything else.
IsoSecond1 == <<"1970-01-01T00:00:01.500Z">>
IsoSecond3 == <<"1970-01-01T00:00:03.250Z">>
NotADate == <<"n", "/", "a">>
DateGetTime(s) ==
  IF s = IsoSecond1 THEN Num(1500)
  ELSE IF s = IsoSecond3 THEN Num(3250)
  ELSE NaN

\* Math.floor(x / 1000)
FloorDiv1000(x) == IF x.nan THEN NaN ELSE Num(x.v \div 1000)

\* JavaScript truthiness of an optional string / optional number.
TruthyStr(o) == IsSome(o) /\ Get(o) # <<>>
TruthyNum(o) == IsSome(o) /\ Get(o) # 0
\* `o || undefined` for an optional string
OrUndefined(o) == IF TruthyStr(o) THEN o ELSE None
\* `o || dflt` for an optional string
OrElse(o, dflt) == IF TruthyStr(o) THEN Get(o) ELSE dflt

(***************************************************************************)
(* CAPIService: PII hashing and the user_data object.                      *)
(***************************************************************************)
\* Variant of hashPII that digests the data as received.
hashPII_Raw(data) == Sha256Hex(data)

\* Variant of hashPII that keeps the case of the data.
hashPII_KeepCase(data) == Sha256Hex(Trim(data))

\* CAPIService.hashPII
hashPII(data) == Sha256Hex(Trim(ToLowerCase(data)))

\* Variant of the handler's copy that digests the data as received.
customersHashPII_Raw(data) == Sha256Hex(data)

\* The copy of hashPII declared inside the customers/create handler.
customersHashPII(data) == Sha256Hex(Trim(ToLowerCase(data)))

\* customer?.default_address?.<f>
AddressField(customer, f) ==
  IF IsSome(customer) /\ IsSome(Get(customer).default_address)
  THEN Get(Get(customer).default_address)[f]
  ELSE None
\* customer?.<f>
CustomerField(customer, f) == IF IsSome(customer) THEN Get(customer)[f] ELSE None

\* `if (x) { userData.k = [this.hashPII(x)] }` for an optional string x
HashedAttr(o) == IF TruthyStr(o) THEN Some(<<hashPII(Get(o))>>) ELSE None
\* the same for customer.id, hashed through id.toString()
HashedId(o) == IF TruthyNum(o) THEN Some(<<hashPII(toString(Get(o)))>>) ELSE None

\* CAPIService.createUserData
createUserData(customer, clientIp, userAgent, fbc, fbp) ==
  [ em |-> HashedAttr(CustomerField(customer, "email")),
    ph |-> HashedAttr(CustomerField(customer, "phone")),
    fn |-> HashedAttr(CustomerField(customer, "first_name")),
    ln |-> HashedAttr(CustomerField(customer, "last_name")),
    ct |-> HashedAttr(AddressField(customer, "city")),
    st |-> HashedAttr(AddressField(customer, "province")),
    zp |-> HashedAttr(AddressField(customer, "zip")),
    country |-> HashedAttr(AddressField(customer, "country")),
    external_id |-> HashedId(CustomerField(customer, "id")),
    client_ip_address |-> OrUndefined(clientIp),
    client_user_agent |-> OrUndefined(userAgent),
    fbc |-> OrUndefined(fbc),
    fbp |-> OrUndefined(fbp) ]

\* The identity attributes of user_data and the upstream field of each.
IdentityKeys == {"em", "ph", "fn", "ln", "ct", "st", "zp", "country"}
UpstreamOf(customer, k) ==
  CASE k = "em" -> CustomerField(customer, "email")
    [] k = "ph" -> CustomerField(customer, "phone")
    [] k = "fn" -> CustomerField(customer, "first_name")
    [] k = "ln" -> CustomerField(customer, "last_name")
    [] k = "ct" -> AddressField(customer, "city")
    [] k = "st" -> AddressField(customer, "province")
    [] k = "zp" -> AddressField(customer, "zip")
    [] k = "country" -> AddressField(customer, "country")

(***************************************************************************)
(* CAPIService: the event builders.  Each returns the list of events it    *)
(* hands to sendEvents; t is the reading of Date.now() during the build.   *)
(***************************************************************************)
RECURSIVE SumSeq(_)
SumSeq(s) == IF s = <<>> THEN 0 ELSE Head(s) + SumSeq(Tail(s))

\* order.line_items?.map(item => ({id, quantity, item_price})) || []
PurchaseContent(item) ==
  [ id |-> IF IsSome(item.product_id) THEN toString(Get(item.product_id))
           ELSE IF IsSome(item.variant_id) THEN toString(Get(item.variant_id))
           ELSE <<>>,
    quantity |-> IF TruthyNum(item.quantity) THEN Get(item.quantity) ELSE 1,
    item_price |-> ParseFloat(OrElse(item.price, <<"0">>)) ]
PurchaseContents(order) ==
  IF IsSome(order.line_items)
  THEN [i \in 1..Len(Get(order.line_items)) |-> PurchaseContent(Get(order.line_items)[i])]
  ELSE <<>>

\* Variant of num_items that counts the line items.
PurchaseNumItems_Count(contents) == Len(contents)

\* contents.reduce((sum, item) => sum + item.quantity, 0)
PurchaseNumItems(contents) ==
  SumSeq([i \in 1..Len(contents) |-> contents[i].quantity])

\* order.created_at ? new Date(order.created_at).getTime() : Date.now()
CreatedAtOrNow(created_at, t) ==
  IF TruthyStr(created_at) THEN DateGetTime(Get(created_at)) ELSE Num(t)

\* custom_data.value of trackPurchase
PurchaseValue(order) == ParseFloat(OrElse(order.total_price, <<"0">>))

\* CAPIService.trackPurchase
trackPurchase(order, customer, eventId, clientData, t) ==
  LET userData == createUserData(customer, clientData.ip, clientData.userAgent,
                                 clientData.fbc, clientData.fbp)
      contents == PurchaseContents(order)
  IN << [ event_name |-> "Purchase",
          event_time |-> FloorDiv1000(CreatedAtOrNow(order.created_at, t)),
          action_source |-> "website",
          event_source_url |-> OrUndefined(order.landing_site_ref),
          user_data |-> userData,
          custom_data |->
            [ value |-> Some(PurchaseValue(order)),
              currency |-> Some(OrElse(order.currency, <<"USD">>)),
              content_type |-> "product",
              content_ids |-> Some([i \in 1..Len(contents) |-> contents[i].id]),
              num_items |-> Some(PurchaseNumItems(contents)),
              order_id |-> Some(IF IsSome(order.id) THEN toString(Get(order.id))
                                ELSE OrElse(order.name, <<>>)),
              contents |-> Some(contents) ],
          event_id |-> IF TruthyStr(eventId) THEN Get(eventId)
                       ELSE Interpolate(order.id) \o <<"_", "purchase", "_">> \o toString(t) ] >>

\* CAPIService.trackInitiateCheckout
trackInitiateCheckout(value, currency, contentIds, numItems, customer, eventId, clientData, t) ==
  LET userData == createUserData(customer, clientData.ip, clientData.userAgent,
                                 clientData.fbc, clientData.fbp)
  IN << [ event_name |-> "InitiateCheckout",
          event_time |-> FloorDiv1000(Num(t)),
          action_source |-> "website",
          event_source_url |-> clientData.sourceUrl,
          user_data |-> userData,
          custom_data |->
            [ value |-> Some(value),
              currency |-> Some(currency),
              content_type |-> "product",
              content_ids |-> Some(contentIds),
              num_items |-> Some(numItems),
              order_id |-> None,
              contents |-> None ],
          event_id |-> IF TruthyStr(eventId) THEN Get(eventId)
                       ELSE <<"initiate_checkout", "_">> \o toString(t) ] >>

\* CAPIService.trackAddToCart (price in cents, ids as strings)
trackAddToCart(productId, variantId, quantity, price, currency, customer, eventId, clientData, t) ==
  LET userData == createUserData(customer, clientData.ip, clientData.userAgent,
                                 clientData.fbc, clientData.fbp)
      id == IF variantId # <<>> THEN variantId ELSE productId
  IN << [ event_name |-> "AddToCart",
          event_time |-> FloorDiv1000(Num(t)),
          action_source |-> "website",
          event_source_url |-> clientData.sourceUrl,
          user_data |-> userData,
          custom_data |->
            [ value |-> Some(Num(price * quantity)),
              currency |-> Some(currency),
              content_type |-> "product",
              content_ids |-> Some(<<id>>),
              num_items |-> Some(quantity),
              order_id |-> None,
              contents |-> Some(<<[id |-> id, quantity |-> quantity,
                                   item_price |-> Num(price)]>>) ],
          event_id |-> IF TruthyStr(eventId) THEN Get(eventId)
                       ELSE productId \o <<"_">> \o variantId
                              \o <<"_", "addtocart", "_">> \o toString(t) ] >>

(***************************************************************************)
(* The webhook handlers: what each does between reading the connection     *)
(* record and issuing the transport call.                                  *)
(***************************************************************************)
\* Variants of the event ids used to test the claims about them.
OrderEventId_NoEntity(order, t) ==
  <<"shopify", "_", "order", "_">> \o toString(t)
CheckoutEventId_AsOrder(checkout, t) ==
  <<"shopify", "_", "order", "_">> \o Interpolate(checkout.id) \o <<"_">> \o toString(t)

\* `shopify_order_${order.id}_${Date.now()}`
OrderEventId(order, t) ==
  <<"shopify", "_", "order", "_">> \o Interpolate(order.id) \o <<"_">> \o toString(t)
\* `shopify_checkout_${checkout.id}_${Date.now()}`
CheckoutEventId(checkout, t) ==
  <<"shopify", "_", "checkout", "_">> \o Interpolate(checkout.id) \o <<"_">> \o toString(t)
\* `shopify_customer_${customer.id}_signup_${Date.now()}`
CustomerEventId(customer, t) ==
  <<"shopify", "_", "customer", "_">> \o Interpolate(customer.id)
    \o <<"_", "signup", "_">> \o toString(t)

\* x.client_details?.user_agent
UserAgentOf(x) ==
  IF IsSome(x.client_details) THEN Get(x.client_details).user_agent ELSE None

\* orders/create: the events handed to sendEvents
OrderEvents(order, t) ==
  LET clientData == [ ip |-> OrUndefined(order.browser_ip),
                      userAgent |-> OrUndefined(UserAgentOf(order)),
                      fbc |-> None, fbp |-> None ]
  IN trackPurchase(order, order.customer, Some(OrderEventId(order, t)), clientData, t)

\* checkouts/create: contentIds, numItems and the events handed to sendEvents
CheckoutContentId(item) ==
  IF IsSome(item.variant_id) THEN Some(toString(Get(item.variant_id)))
  ELSE IF IsSome(item.product_id) THEN Some(toString(Get(item.product_id)))
  ELSE IF IsSome(item.id) THEN Some(toString(Get(item.id)))
  ELSE None
CheckoutContentIds(items) ==
  LET ids == [i \in 1..Len(items) |-> CheckoutContentId(items[i])]
      kept == SelectSeq(ids, LAMBDA o : IsSome(o))
  IN [i \in 1..Len(kept) |-> Get(kept[i])]
CheckoutNumItems(items) ==
  SumSeq([i \in 1..Len(items) |->
            IF TruthyNum(items[i].quantity) THEN Get(items[i].quantity) ELSE 1])
CheckoutEvents(checkout, t) ==
  LET items == Get(checkout.line_items)
      clientData == [ ip |-> OrUndefined(checkout.browser_ip),
                      userAgent |-> OrUndefined(UserAgentOf(checkout)),
                      sourceUrl |-> OrUndefined(checkout.landing_site_ref),
                      fbc |-> None, fbp |-> None ]
  IN trackInitiateCheckout(ParseFloat(OrElse(checkout.total_price, <<"0">>)),
                           OrElse(checkout.currency, <<"USD">>),
                           CheckoutContentIds(items), CheckoutNumItems(items),
                           checkout.customer, Some(CheckoutEventId(checkout, t)),
                           clientData, t)

\* customers/create: customEvent, handed to sendEvents as [customEvent]
CustomerEvents(customer, t) ==
  LET c == Some(customer)
      h(o) == IF TruthyStr(o) THEN Some(<<customersHashPII(Get(o))>>) ELSE None
  IN << [ event_name |-> "CompleteRegistration",
          event_time |-> FloorDiv1000(CreatedAtOrNow(customer.created_at, t)),
          action_source |-> "website",
          event_source_url |-> None,
          user_data |->
            [ em |-> h(customer.email),
              ph |-> h(customer.phone),
              fn |-> h(customer.first_name),
              ln |-> h(customer.last_name),
              ct |-> h(AddressField(c, "city")),
              st |-> h(AddressField(c, "province")),
              zp |-> h(AddressField(c, "zip")),
              country |-> h(AddressField(c, "country")),
              external_id |-> IF TruthyNum(customer.id)
                              THEN Some(<<customersHashPII(toString(Get(customer.id)))>>)
                              ELSE None,
              client_ip_address |-> None,
              client_user_agent |-> None,
              fbc |-> None,
              fbp |-> None ],
          custom_data |->
            [ value |-> None, currency |-> None, content_type |-> "registration",
              content_ids |-> None, num_items |-> None, order_id |-> None,
              contents |-> None ],
          event_id |-> CustomerEventId(customer, t) ] >>

(***************************************************************************)
(* Upstream payloads (Shopify webhook bodies).                             *)
(***************************************************************************)
Address(city, province, zip, country) ==
  [city |-> city, province |-> province, zip |-> zip, country |-> country]
Customer(id, email, phone, first, last, addr, created) ==
  [ id |-> id, email |-> email, phone |-> phone, first_name |-> first,
    last_name |-> last, default_address |-> addr, created_at |-> created ]
LineItem(id, variant, product, quantity, price) ==
  [ id |-> id, variant_id |-> variant, product_id |-> product,
    quantity |-> quantity, price |-> price ]
\* The fields the handlers read of an order or a checkout.
Order(id, name, customer, ip, details, ref, items, created, total, currency) ==
  [ id |-> id, name |-> name, customer |-> customer, browser_ip |-> ip,
    client_details |-> details, landing_site_ref |-> ref, line_items |-> items,
    created_at |-> created, total_price |-> total, currency |-> currency ]

Plain == Some(<<" ", "A", "@", "b", " ">>)
PiiValues == {None, Some(<<>>), Some(<<" ">>), Plain, Some(<<"a", "@", "b">>)}
TwoValues == {None, Plain}
Timestamps == {None, Some(<<>>), Some(IsoSecond1), Some(IsoSecond3), Some(NotADate)}
Prices == { None, Some(<<>>), Some(<<"a", "b", "c">>), Some(<<"2", "5", ".", "0", "0">>),
            Some(<<"5", "x">>), Some(<<" ", "7">>) }
EntityIds == {1, 12}

NoAddress == Address(None, None, None, None)
FullAddress == Address(Plain, Plain, Plain, Plain)
FullCustomer(id) ==
  Customer(Some(id), Plain, Plain, Plain, Plain, Some(FullAddress), Some(IsoSecond1))
BareCustomer == Customer(None, None, None, None, None, None, None)

\* Customers: every subset of the attributes present, and each attribute
\* alone over the edge values (empty, blank, mixed case, lower case).
SubsetCustomers ==
  { Customer(Some(42), e, p, f, l, a, None) :
      e \in TwoValues, p \in TwoValues, f \in TwoValues, l \in TwoValues,
      a \in {None} \cup { Some(Address(c, s, z, k)) :
                            c \in TwoValues, s \in TwoValues,
                            z \in TwoValues, k \in TwoValues } }
EdgeCustomers ==
  { [BareCustomer EXCEPT ![f] = v] :
      f \in {"email", "phone", "first_name", "last_name"}, v \in PiiValues }
  \cup { [BareCustomer EXCEPT !.default_address = Some([NoAddress EXCEPT ![f] = v])] :
           f \in {"city", "province", "zip", "country"}, v \in PiiValues }
  \cup { [BareCustomer EXCEPT !.id = i] : i \in {None, Some(0), Some(7)} }
  \cup { [FullCustomer(7) EXCEPT !.created_at = c] : c \in Timestamps }
RichCustomers == SubsetCustomers \cup EdgeCustomers

ItemLists ==
  { None, Some(<<>>),
    Some(<<LineItem(Some(9), Some(5), Some(3), Some(2), Some(<<"1", "0", ".", "0", "0">>)),
           LineItem(Some(8), Some(6), None, Some(1), Some(<<"5">>))>>),
    Some(<<LineItem(Some(9), None, None, None, None),
           LineItem(None, None, None, Some(0), Some(<<"x">>))>>) }
ClientBits ==
  { <<None, None, None>>,
    <<Some(<<"1", ".", "2">>), Some([user_agent |-> Some(<<"U", "A">>)]), Some(<<"r", "e", "f">>)>>,
    <<Some(<<>>), Some([user_agent |-> None]), Some(<<>>)>> }
IdNames == { <<Some(1), Some(<<"#", "1">>)>>, <<None, Some(<<"#", "1">>)>>, <<None, None>> }

\* Orders and checkouts (the same shape): rich customers with the other
\* fields fixed, the other fields varied with the customer fixed, and
\* every subset of the optional parts absent.
RichOrders ==
  { Order(Some(1), None, c, None, None, None,
          Some(<<LineItem(Some(9), Some(5), Some(3), Some(2), None)>>), None,
          Some(<<"2", "5", ".", "0", "0">>), Some(<<"E", "U", "R">>)) :
      c \in {None} \cup { Some(x) : x \in RichCustomers } }
  \cup
  { Order(n[1], n[2], Some(FullCustomer(7)), b[1], b[2], b[3], items, created, total, cur) :
      n \in IdNames, b \in ClientBits, items \in ItemLists, created \in Timestamps,
      total \in Prices, cur \in {None, Some(<<"E", "U", "R">>)} }
  \cup
  { Order(Some(1), None, c, b[1], b[2], b[3], items, created, total, cur) :
      c \in { None, Some(FullCustomer(7)),
              Some([FullCustomer(7) EXCEPT !.default_address = None]) },
      b \in ClientBits, items \in ItemLists,
      created \in {None, Some(IsoSecond1)},
      total \in {None, Some(<<"2", "5", ".", "0", "0">>)},
      cur \in {None, Some(<<"E", "U", "R">>)} }

\* The small payloads of the concurrent specification: two entity ids per
\* kind, a checkout without line items, and the missing payload.
SmallOrder(id) ==
  Order(Some(id), None, Some(FullCustomer(id)), None, None, None,
        Some(<<LineItem(Some(9), Some(5), Some(3), Some(2), Some(<<"5">>))>>),
        Some(IsoSecond1), Some(<<"2", "5", ".", "0", "0">>), Some(<<"E", "U", "R">>))
SmallPayloads(topic) ==
  {None} \cup
  CASE topic = "orders/create" -> { Some(SmallOrder(i)) : i \in EntityIds }
    [] topic = "checkouts/create" ->
         { Some(SmallOrder(i)) : i \in EntityIds }
         \cup { Some([SmallOrder(1) EXCEPT !.line_items = Some(<<>>)]) }
    [] topic = "customers/create" -> { Some(FullCustomer(i)) : i \in EntityIds }
\* The payloads of one entity per kind: the missing payload, entity 1 and,
\* for checkouts, entity 1 without line items.
TinyPayloads(topic) ==
  {None} \cup
  CASE topic = "orders/create" -> { Some(SmallOrder(1)) }
    [] topic = "checkouts/create" ->
         { Some(SmallOrder(1)), Some([SmallOrder(1) EXCEPT !.line_items = Some(<<>>)]) }
    [] topic = "customers/create" -> { Some(FullCustomer(1)) }
RichOrderPayloads == {None} \cup { Some(o) : o \in RichOrders }
RichCustomerPayloads == {None} \cup { Some(c) : c \in RichCustomers }
RichPayloads(topic) ==
  IF topic = "customers/create" THEN RichCustomerPayloads ELSE RichOrderPayloads

(***************************************************************************)
(* State.                                                                  *)
(*   now       Date.now(), in milliseconds                                 *)
(*   sessions  the shops that have a stored Session row                    *)
(*   meta      the Meta row of each shop's session, if any                 *)
(*   del       the webhook deliveries: position of the handler, its        *)
(*             inputs (topic, shop, payload, whether a session was found), *)
(*             the connection it read, the HTTP requests it has issued,    *)
(*             the outcome of the request and its own response             *)
(***************************************************************************)
\* now: the clock; sessions, meta: the Session and Meta tables; del: the
\* webhook deliveries; reqs: the requests of the embedded admin app and the
\* OAuth callback; shopify: the marketing activities kept by the shop;
\* call: one application of a helper function.
VARIABLES now, sessions, meta, del, reqs, shopify, call
vars == <<now, sessions, meta, del, reqs, shopify, call>>

Requests == 1..MaxRequests
IdleRequest ==
  [ pc |-> "idle", kind |-> "none", sessionId |-> None, input |-> None,
    row |-> None, remote |-> 0, stored |-> FALSE, answer |-> "none",
    warning |-> None, raised |-> FALSE ]
NoShopify == [ activities |-> <<>>, runs |-> <<>> ]
NoCall == [ args |-> <<>>, results |-> {} ]
\* The parts of the state outside the webhook pipeline, at rest.
AtRest ==
  /\ reqs = [r \in Requests |-> IdleRequest]
  /\ shopify = NoShopify
  /\ call = NoCall

Deliveries == 1..MaxDeliveries
Shops == {"shop1"}
Topics == {"orders/create", "checkouts/create", "customers/create"}
PixelIds == {<<>>, <<"p", "x", "1">>}
Token == <<"t", "o", "k">>
MetaRows == { [pixelId |-> p, accessToken |-> Token] : p \in PixelIds }

Idle ==
  [ pc |-> "idle", topic |-> "none", shop |-> "none", session |-> FALSE,
    payload |-> None, conn |-> None, calls |-> <<>>, outcome |-> "none", response |-> "none" ]

Init ==
  /\ now = StartNow
  /\ sessions \in SUBSET Shops
  /\ meta \in [Shops -> {None} \cup { Some(r) : r \in MetaRows }]
  /\ \A s \in Shops : s \notin sessions => meta[s] = None
  /\ del = [d \in Deliveries |-> Idle]
  /\ AtRest

\* Variant of the connection test that only looks for the row.
UsableConnection_RowOnly(metaConnection) == IsSome(metaConnection)

\* `!(!metaConnection || !metaConnection.pixelId)`
UsableConnection(metaConnection) ==
  IsSome(metaConnection) /\ Get(metaConnection).pixelId # <<>>

\* `return new Response()`
Respond(dl) == [dl EXCEPT !.pc = "done", !.response = "200"]

\* Variant of sendEvents that keeps its batch in a buffer shared by the
\* deliveries in progress.
Post_SharedBatch(dl, events) ==
  LET others == { e \in Deliveries : del[e].pc = "inflight" }
      batch == IF others = {} THEN events
               ELSE del[CHOOSE e \in others : TRUE].calls[1].data \o events
  IN [dl EXCEPT !.pc = "inflight",
                !.calls = Append(@, [ pixelId |-> Get(dl.conn).pixelId,
                                      access_token |-> Get(dl.conn).accessToken,
                                      data |-> batch ])]

\* Variant of sendEvents that does not wait for the response.
Post_NoAwait(dl, events) ==
  [dl EXCEPT !.pc = "done", !.response = "200",
             !.calls = Append(@, [ pixelId |-> Get(dl.conn).pixelId,
                                   access_token |-> Get(dl.conn).accessToken,
                                   data |-> events ])]

\* Variant of sendEvents that posts the batch twice.
Post_Twice(dl, events) ==
  LET req == [ pixelId |-> Get(dl.conn).pixelId,
               access_token |-> Get(dl.conn).accessToken,
               data |-> events ]
  IN [dl EXCEPT !.pc = "inflight", !.calls = @ \o <<req, req>>]

\* CAPIService.sendEvents up to its await: one axios.post of the batch to
\* the events edge of the pixel of the connection.
Post(dl, events) ==
  [dl EXCEPT !.pc = "inflight",
             !.calls = Append(@, [ pixelId |-> Get(dl.conn).pixelId,
                                   access_token |-> Get(dl.conn).accessToken,
                                   data |-> events ])]

\* What axios.post settles to: resolved with the response (2xx), or
\* rejected with an AxiosError that has a message and, when the endpoint
\* answered, the response with its body.
Resolved(data) == [ status |-> "resolved", data |-> data ]
Rejected(response, message) ==
  [ status |-> "rejected", response |-> response, message |-> message ]
\* error.response?.data?.error?.message
ErrorDetail(error) ==
  IF /\ IsSome(error.response)
     /\ IsSome(Get(error.response).data)
     /\ IsSome(Get(Get(error.response).data).error)
  THEN Get(Get(Get(error.response).data).error).message
  ELSE None
\* Variant of sendEvents that reports the transport's message only.
sendEvents_MessageOnly(settled) ==
  IF settled.status = "resolved"
  THEN [ returned |-> Some(settled.data), thrown |-> None ]
  ELSE [ returned |-> None,
         thrown |-> Some(<<"CAPI request failed: ">> \o settled.message) ]
\* CAPIService.sendEvents from the settling of its axios.post: it returns
\* response.data, or throws
\* `CAPI request failed: ${error.response?.data?.error?.message || error.message}`.
sendEvents(settled) ==
  IF settled.status = "resolved"
  THEN [ returned |-> Some(settled.data), thrown |-> None ]
  ELSE [ returned |-> None,
         thrown |-> Some(<<"CAPI request failed: ">>
                           \o OrElse(ErrorDetail(settled), settled.message)) ]

\* A member access `o.f` raises a TypeError when o is absent; an optional
\* chain `o?.f` never does.
MemberAccess(o) == ~IsSome(o)
OptionalChain(o) == FALSE

\* Variant of the order build that reads the address without `?.`.
OrderBuildThrows_Unguarded(order) ==
  MemberAccess(CustomerField(order.customer, "default_address"))

\* Whether building the event raises, by the accesses the build makes to
\* the optional parts of the payload.
OrderBuildThrows(order) ==
  \/ OptionalChain(order.client_details)        \* order.client_details?.user_agent
  \/ OptionalChain(order.customer)              \* customer?.email, customer?.id, ...
  \/ OptionalChain(CustomerField(order.customer, "default_address"))
                                                \* customer?.default_address?.city, ...
  \/ OptionalChain(order.line_items)            \* order.line_items?.map(...)
  \/ \E i \in 1..Len(IF IsSome(order.line_items) THEN Get(order.line_items) ELSE <<>>) :
       \/ OptionalChain(Get(order.line_items)[i].product_id)  \* item.product_id?.toString()
       \/ OptionalChain(Get(order.line_items)[i].variant_id)  \* item.variant_id?.toString()
  \/ OptionalChain(order.id)                    \* order.id?.toString()
CheckoutBuildThrows(checkout) ==
  \/ MemberAccess(checkout.line_items)          \* checkout.line_items.map(...)
  \/ \E i \in 1..Len(IF IsSome(checkout.line_items) THEN Get(checkout.line_items) ELSE <<>>) :
       \/ OptionalChain(Get(checkout.line_items)[i].variant_id)
       \/ OptionalChain(Get(checkout.line_items)[i].product_id)
       \/ OptionalChain(Get(checkout.line_items)[i].id)
  \/ OptionalChain(checkout.client_details)     \* checkout.client_details?.user_agent
  \/ OptionalChain(checkout.customer)
  \/ OptionalChain(CustomerField(checkout.customer, "default_address"))
CustomerBuildThrows(customer) ==
  \/ OptionalChain(customer.default_address)    \* customer.default_address?.city, ...
  \/ (TruthyNum(customer.id) /\ MemberAccess(customer.id))
                                                \* customer.id ? customer.id.toString() : ...

\* The handlers' catch block: the error is logged and the handler goes on
\* to `return new Response()`.
Caught(dl) == [dl EXCEPT !.pc = "done", !.outcome = "threw", !.response = "200"]

\* The three handlers from `prisma.meta.findUnique` to their await of the
\* transport call, or to their early return.
ordersCreate(dl, t) ==
  IF ~UsableConnection(dl.conn) THEN Respond(dl)
  ELSE IF dl.payload = None THEN Respond(dl)
  ELSE IF OrderBuildThrows(Get(dl.payload)) THEN Caught(dl)
  ELSE Post(dl, OrderEvents(Get(dl.payload), t))
checkoutsCreate(dl, t) ==
  IF ~UsableConnection(dl.conn) THEN Respond(dl)
  ELSE IF \/ dl.payload = None
          \/ ~IsSome(Get(dl.payload).line_items)
          \/ Len(Get(Get(dl.payload).line_items)) = 0 THEN Respond(dl)
  ELSE IF CheckoutBuildThrows(Get(dl.payload)) THEN Caught(dl)
  ELSE Post(dl, CheckoutEvents(Get(dl.payload), t))
customersCreate(dl, t) ==
  IF ~UsableConnection(dl.conn) THEN Respond(dl)
  ELSE IF dl.payload = None THEN Respond(dl)
  ELSE IF CustomerBuildThrows(Get(dl.payload)) THEN Caught(dl)
  ELSE Post(dl, CustomerEvents(Get(dl.payload), t))

\* Variants of the handlers' catch block.
OnTransportFailure_Rethrow(dl, outcome) ==
  [dl EXCEPT !.pc = "done", !.outcome = outcome, !.response = "error"]
OnTransportFailure_Retry(dl, outcome) ==
  [dl EXCEPT !.outcome = outcome, !.calls = Append(@, dl.calls[Len(dl.calls)])]

\* axios.post rejects (non-2xx status or timeout): sendEvents throws
\* `CAPI request failed`, the handler's catch logs it and the handler
\* returns new Response().
OnTransportFailure(dl, outcome) ==
  [dl EXCEPT !.pc = "done", !.outcome = outcome, !.response = "200"]
\* axios.post resolves: sendEvents returns response.data, the handler logs
\* and returns new Response().
OnTransportSuccess(dl) ==
  [dl EXCEPT !.pc = "done", !.outcome = "ok", !.response = "200"]

(***************************************************************************)
(* Actions.                                                                *)
(***************************************************************************)
\* authenticate.webhook(request), and `if (!session) return new Response()`.
Authenticate(dl, topic, shop, payload, hasSession) ==
  LET got == [dl EXCEPT !.topic = topic, !.shop = shop, !.payload = payload,
                        !.session = hasSession]
  IN IF hasSession THEN [got EXCEPT !.pc = "authenticated"] ELSE Respond(got)

Receive(d) ==
  /\ del[d].pc = "idle"
  /\ \E topic \in Topics, shop \in Shops :
       \E payload \in SmallPayloads(topic) :
         del' = [del EXCEPT ![d] =
                   Authenticate(del[d], topic, shop, payload, shop \in sessions)]
  /\ UNCHANGED <<now, sessions, meta, reqs, shopify, call>>

ReceiveRich(d) ==
  /\ d = 1
  /\ del[d].pc = "idle"
  /\ \E topic \in Topics, shop \in Shops :
       \E payload \in RichPayloads(topic) :
         del' = [del EXCEPT ![d] =
                   Authenticate(del[d], topic, shop, payload, shop \in sessions)]
  /\ UNCHANGED <<now, sessions, meta, reqs, shopify, call>>

ReceiveTiny(d) ==
  /\ del[d].pc = "idle"
  /\ \E topic \in Topics, shop \in DOMAIN meta :
       \E payload \in TinyPayloads(topic) :
         del' = [del EXCEPT ![d] =
                   Authenticate(del[d], topic, shop, payload, shop \in sessions)]
  /\ UNCHANGED <<now, sessions, meta, reqs, shopify, call>>

\* prisma.meta.findUnique({ where: { sessionId: session.id } })
FindUnique(dl) == [dl EXCEPT !.conn = meta[dl.shop]]

\* Variant of the order handler that removes the connection row when it
\* finds no usable pixel.
OrdersCreate_Cleanup(d) ==
  /\ del[d].pc = "authenticated"
  /\ del[d].topic = "orders/create"
  /\ del' = [del EXCEPT ![d] = ordersCreate(FindUnique(del[d]), now)]
  /\ meta' = IF UsableConnection(meta[del[d].shop]) THEN meta
             ELSE [meta EXCEPT ![del[d].shop] = None]
  /\ UNCHANGED <<now, sessions, reqs, shopify, call>>

OrdersCreate(d) ==
  /\ del[d].pc = "authenticated"
  /\ del[d].topic = "orders/create"
  /\ del' = [del EXCEPT ![d] = ordersCreate(FindUnique(del[d]), now)]
  /\ UNCHANGED <<now, sessions, meta, reqs, shopify, call>>

CheckoutsCreate(d) ==
  /\ del[d].pc = "authenticated"
  /\ del[d].topic = "checkouts/create"
  /\ del' = [del EXCEPT ![d] = checkoutsCreate(FindUnique(del[d]), now)]
  /\ UNCHANGED <<now, sessions, meta, reqs, shopify, call>>

CustomersCreate(d) ==
  /\ del[d].pc = "authenticated"
  /\ del[d].topic = "customers/create"
  /\ del' = [del EXCEPT ![d] = customersCreate(FindUnique(del[d]), now)]
  /\ UNCHANGED <<now, sessions, meta, reqs, shopify, call>>

TransportOk(d) ==
  /\ del[d].pc = "inflight"
  /\ del' = [del EXCEPT ![d] = OnTransportSuccess(del[d])]
  /\ UNCHANGED <<now, sessions, meta, reqs, shopify, call>>

TransportRejects(d) ==
  /\ del[d].pc = "inflight"
  /\ del' = [del EXCEPT ![d] = OnTransportFailure(del[d], "http400")]
  /\ UNCHANGED <<now, sessions, meta, reqs, shopify, call>>

TransportTimesOut(d) ==
  /\ del[d].pc = "inflight"
  /\ del' = [del EXCEPT ![d] = OnTransportFailure(del[d], "timeout")]
  /\ UNCHANGED <<now, sessions, meta, reqs, shopify, call>>

Tick ==
  /\ now < StartNow + MaxTicks
  /\ now' = now + 1
  /\ UNCHANGED <<sessions, meta, del, reqs, shopify, call>>

Next ==
  \/ \E d \in Deliveries :
       \/ Receive(d)
       \/ OrdersCreate(d)
       \/ CheckoutsCreate(d)
       \/ CustomersCreate(d)
       \/ TransportOk(d)
       \/ TransportRejects(d)
       \/ TransportTimesOut(d)
  \/ Tick

Spec == Init /\ [][Next]_vars

\* The event loop runs every handler that can continue, and every transport
\* call ends: axios resolves, rejects, or gives up after its 10 s timeout.
HandlerStep(d) == OrdersCreate(d) \/ CheckoutsCreate(d) \/ CustomersCreate(d)
TransportEnds(d) == TransportOk(d) \/ TransportRejects(d) \/ TransportTimesOut(d)
NextTiny ==
  \/ \E d \in Deliveries :
       \/ ReceiveTiny(d)
       \/ OrdersCreate(d)
       \/ CheckoutsCreate(d)
       \/ CustomersCreate(d)
       \/ TransportOk(d)
       \/ TransportRejects(d)
       \/ TransportTimesOut(d)
  \/ Tick
SpecLive ==
  /\ Init
  /\ [][NextTiny]_vars
  /\ \A d \in Deliveries : WF_vars(HandlerStep(d) \/ TransportEnds(d))

\* One delivery at a time, over the rich payloads.
NextRich ==
  \/ \E d \in Deliveries :
       \/ ReceiveRich(d)
       \/ OrdersCreate(d)
       \/ CheckoutsCreate(d)
       \/ CustomersCreate(d)
       \/ TransportOk(d)
       \/ TransportRejects(d)
       \/ TransportTimesOut(d)
  \/ Tick

SpecRich == Init /\ [][NextRich]_vars

\* Two installed shops, each with its own session and its own row of the
\* Meta table (sessionId is unique), or without one.
TwoShops == {"shop1", "shop2"}
ShopPixel(shop) == IF shop = "shop1" THEN <<"p", "x", "1">> ELSE <<"p", "x", "2">>
ShopRow(shop) == [pixelId |-> ShopPixel(shop), accessToken |-> <<"t", "o", "k">> \o <<shop>>]
InitShops ==
  /\ now = StartNow
  /\ sessions \in SUBSET TwoShops
  /\ meta \in [TwoShops -> {None} \cup { Some(ShopRow(s)) : s \in TwoShops }]
  /\ \A s \in TwoShops : meta[s] \in {None, Some(ShopRow(s))}
  /\ \A s \in TwoShops : s \notin sessions => meta[s] = None
  /\ del = [d \in Deliveries |-> Idle]
  /\ AtRest

SpecShops == InitShops /\ [][NextTiny]_vars

\* The helper functions applied to strings of at most MaxLen characters
\* that mix upper case, lower case and white space.
RECURSIVE StringsUpTo(_)
StringsUpTo(n) ==
  IF n = 0 THEN { <<>> }
  ELSE LET shorter == StringsUpTo(n - 1)
       IN shorter \cup { Append(x, c) : x \in shorter, c \in {" ", "A", "a"} }
Strings == StringsUpTo(MaxLen)
InitPure ==
  /\ now = StartNow
  /\ sessions = {}
  /\ meta = [s \in Shops |-> None]
  /\ del = [d \in Deliveries |-> Idle]
  /\ reqs = [r \in Requests |-> IdleRequest]
  /\ shopify = NoShopify
  /\ call \in [ args : Strings \X Strings, results : {{}} ]
\* capiService.hashPII(data), inside createUserData
ApplyHashPII(i) ==
  /\ \A r \in call.results : ~(r.fn = "CAPIService.hashPII" /\ r.arg = call.args[i])
  /\ call' = [call EXCEPT !.results = @ \cup
                { [ fn |-> "CAPIService.hashPII", arg |-> call.args[i],
                    out |-> hashPII(call.args[i]) ] }]
  /\ UNCHANGED <<now, sessions, meta, del, reqs, shopify>>
\* hashPII(data), inside the customers/create handler
ApplyCustomersHashPII(i) ==
  /\ \A r \in call.results : ~(r.fn = "hashPII" /\ r.arg = call.args[i])
  /\ call' = [call EXCEPT !.results = @ \cup
                { [ fn |-> "hashPII", arg |-> call.args[i],
                    out |-> customersHashPII(call.args[i]) ] }]
  /\ UNCHANGED <<now, sessions, meta, del, reqs, shopify>>
NextPure ==
  \E i \in 1..2 :
    \/ ApplyHashPII(i)
    \/ ApplyCustomersHashPII(i)
SpecPure == InitPure /\ [][NextPure]_vars

\* The settlings of one axios.post: a 2xx response, a non-2xx response
\* with each shape of body, and a failure without response.
AxiosMessages == { <<"Request failed with status code 400">>,
                   <<"Request failed with status code 500">> }
ErrorBodies ==
  {None, Some([error |-> None])}
    \cup { Some([error |-> Some([message |-> m])]) : m \in {None} \cup { Some(x) : x \in Strings } }
Settlings ==
  { Resolved([events_received |-> n]) : n \in 0..1 }
    \cup { Rejected(Some([data |-> b]), m) : b \in ErrorBodies, m \in AxiosMessages }
    \cup { Rejected(None, <<"timeout of 10000ms exceeded">>),
           Rejected(None, <<"Network Error">>) }
InitTransport ==
  /\ now = StartNow
  /\ sessions = {}
  /\ meta = [s \in Shops |-> None]
  /\ del = [d \in Deliveries |-> Idle]
  /\ reqs = [r \in Requests |-> IdleRequest]
  /\ shopify = NoShopify
  /\ call \in [ args : { <<x>> : x \in Settlings }, results : {{}} ]
\* `await axios.post(...)` settles and sendEvents returns or throws.
ApplySendEvents ==
  /\ call.results = {}
  /\ call' = [call EXCEPT !.results =
                { [ fn |-> "CAPIService.sendEvents", arg |-> call.args[1],
                    out |-> sendEvents(call.args[1]) ] }]
  /\ UNCHANGED <<now, sessions, meta, del, reqs, shopify>>
NextTransport == ApplySendEvents
SpecTransport == InitTransport /\ [][NextTransport]_vars

(***************************************************************************)
(* The writers of the Meta and Session tables: the OAuth callback, the     *)
(* selectPixel and disconnect intents and the app/uninstalled webhook.     *)
(* The id of a session is the name of its shop.                            *)
(***************************************************************************)
DbRow(id, pixelId, accessToken) ==
  [ id |-> id, pixelId |-> pixelId, accessToken |-> accessToken ]
\* longLivedTokenResponse.data.access_token
LongLivedToken == <<"t", "o", "k", "2">>
\* The request has returned.
Answer(rq, answer) == [rq EXCEPT !.pc = "done", !.answer = answer]

\* The state parameter made by initiateFacebookAuth, and
\* JSON.parse(Buffer.from(state, 'base64').toString()) followed by
\* `const { sessionId } = sessionData`.
StateParam(sessionId) == <<"base64{sessionId:", sessionId, "}">>
DecodeState(state) ==
  IF Len(state) = 3 /\ state[1] = "base64{sessionId:" /\ state[3] = "}"
  THEN [ parsed |-> TRUE, sessionId |-> Some(state[2]) ]
  ELSE IF state = <<"base64{}">>
  THEN [ parsed |-> TRUE, sessionId |-> None ]
  ELSE [ parsed |-> FALSE, sessionId |-> None ]
\* The query parameters of a callback request.
CallbackParams ==
  { [ error |-> Some(<<"access_denied">>), code |-> None, state |-> Some(StateParam("shop1")) ],
    [ error |-> None, code |-> None, state |-> Some(StateParam("shop1")) ],
    [ error |-> None, code |-> Some(<<"c">>), state |-> None ],
    [ error |-> None, code |-> Some(<<"c">>), state |-> Some(<<"garbled">>) ],
    [ error |-> None, code |-> Some(<<"c">>), state |-> Some(<<"base64{}">>) ],
    [ error |-> None, code |-> Some(<<"c">>), state |-> Some(StateParam("ghost")) ],
    [ error |-> None, code |-> Some(<<"c">>), state |-> Some(StateParam("shop1")) ] }

\* loader, up to the session lookup
loaderStart(rq, params) ==
  LET got == [rq EXCEPT !.kind = "callback", !.input = Some(params)]
  IN IF TruthyStr(params.error) THEN Answer(got, "errorPage")
     ELSE IF ~TruthyStr(params.code) \/ ~TruthyStr(params.state) THEN Answer(got, "errorPage")
     ELSE IF ~DecodeState(Get(params.state)).parsed THEN Answer(got, "errorPage")
     ELSE [got EXCEPT !.pc = "findSession",
                      !.sessionId = DecodeState(Get(params.state)).sessionId]
CallbackStart(r) ==
  /\ reqs[r].pc = "idle"
  /\ \E params \in CallbackParams :
       reqs' = [reqs EXCEPT ![r] = loaderStart(reqs[r], params)]
  /\ UNCHANGED <<now, sessions, meta, del, shopify, call>>
\* prisma.session.findUnique({ where: { id: sessionId } }): rejects an
\* undefined id (outside the try, so the loader throws), else `!session`.
CallbackFindSession(r) ==
  /\ reqs[r].pc = "findSession" /\ reqs[r].kind = "callback"
  /\ reqs' = [reqs EXCEPT ![r] =
                IF ~IsSome(reqs[r].sessionId) THEN Answer(@, "threw")
                ELSE IF Get(reqs[r].sessionId) \notin sessions THEN Answer(@, "errorPage")
                ELSE [@ EXCEPT !.pc = "exchange"]]
  /\ UNCHANGED <<now, sessions, meta, del, shopify, call>>
\* Variant of the exchange that goes on without the user lookup.
CallbackExchange_SkipUser(r) ==
  /\ reqs[r].pc = "exchange"
  /\ \E n \in 0..3 :
       reqs' = [reqs EXCEPT ![r] =
                  IF n < 2 THEN Answer([@ EXCEPT !.remote = n], "errorPage")
                  ELSE [@ EXCEPT !.remote = n, !.pc = "upsert"]]
  /\ UNCHANGED <<now, sessions, meta, del, shopify, call>>
\* The three axios.get calls in a row (code exchange, long-lived token,
\* /me): n of them succeed; the first failure goes to the catch.
CallbackExchange(r) ==
  /\ reqs[r].pc = "exchange"
  /\ \E n \in 0..3 :
       reqs' = [reqs EXCEPT ![r] =
                  IF n < 3 THEN Answer([@ EXCEPT !.remote = n], "errorPage")
                  ELSE [@ EXCEPT !.remote = n, !.pc = "upsert"]]
  /\ UNCHANGED <<now, sessions, meta, del, shopify, call>>
\* Variant of the upsert whose update branch keeps the selected pixel.
CallbackUpsert_KeepPixel(r) ==
  LET sid == Get(reqs[r].sessionId)
  IN /\ reqs[r].pc = "upsert"
     /\ IF IsSome(meta[sid])
        THEN /\ meta' = [meta EXCEPT ![sid] =
                           Some([Get(@) EXCEPT !.accessToken = LongLivedToken])]
             /\ reqs' = [reqs EXCEPT ![r] = Answer([@ EXCEPT !.stored = TRUE], "successPage")]
        ELSE IF sid \in sessions
        THEN /\ meta' = [meta EXCEPT ![sid] = Some(DbRow(r, <<>>, LongLivedToken))]
             /\ reqs' = [reqs EXCEPT ![r] = Answer([@ EXCEPT !.stored = TRUE], "successPage")]
        ELSE /\ meta' = meta
             /\ reqs' = [reqs EXCEPT ![r] = Answer(@, "errorPage")]
     /\ UNCHANGED <<now, sessions, del, shopify, call>>
\* prisma.meta.upsert({ where: { sessionId }, update: {..., pixelId: ""},
\* create: {..., pixelId: ""} }); the create violates Meta_sessionId_fkey
\* when the session is gone.
CallbackUpsert(r) ==
  LET sid == Get(reqs[r].sessionId)
  IN /\ reqs[r].pc = "upsert"
     /\ IF IsSome(meta[sid])
        THEN /\ meta' = [meta EXCEPT ![sid] =
                           Some([Get(@) EXCEPT !.accessToken = LongLivedToken,
                                               !.pixelId = <<>>])]
             /\ reqs' = [reqs EXCEPT ![r] = Answer([@ EXCEPT !.stored = TRUE], "successPage")]
        ELSE IF sid \in sessions
        THEN /\ meta' = [meta EXCEPT ![sid] = Some(DbRow(r, <<>>, LongLivedToken))]
             /\ reqs' = [reqs EXCEPT ![r] = Answer([@ EXCEPT !.stored = TRUE], "successPage")]
        ELSE /\ meta' = meta
             /\ reqs' = [reqs EXCEPT ![r] = Answer(@, "errorPage")]
     /\ UNCHANGED <<now, sessions, del, shopify, call>>

\* authenticate.admin(request) of the connect route: the session of the
\* shop, or 401.
AuthenticateAdmin(rq, kind, input, shop, next) ==
  LET got == [rq EXCEPT !.kind = kind, !.input = input]
  IN IF shop \notin sessions THEN Answer(got, "401")
     ELSE [got EXCEPT !.pc = next, !.sessionId = Some(shop)]

\* intent selectPixel: authentication and `if (!pixelId)`.
SelectPixelStart(r) ==
  /\ reqs[r].pc = "idle"
  /\ \E shop \in Shops, pixelId \in {None, Some(<<"p", "x", "1">>)} :
       reqs' = [reqs EXCEPT ![r] =
                  LET auth == AuthenticateAdmin(@, "selectPixel", pixelId, shop, "findMeta")
                  IN IF auth.pc = "findMeta" /\ ~TruthyStr(pixelId)
                     THEN Answer(auth, "400") ELSE auth]
  /\ UNCHANGED <<now, sessions, meta, del, shopify, call>>
\* prisma.meta.findUnique({ where: { sessionId: session.id } })
SelectPixelFind(r) ==
  /\ reqs[r].pc = "findMeta"
  /\ reqs' = [reqs EXCEPT ![r] =
                IF ~IsSome(meta[Get(reqs[r].sessionId)]) THEN Answer(@, "404")
                ELSE [@ EXCEPT !.pc = "update", !.row = meta[Get(reqs[r].sessionId)]]]
  /\ UNCHANGED <<now, sessions, meta, del, shopify, call>>
\* metaApi.getPixelDetails(pixelId) fails: the outer catch answers 500.
SelectPixelDetailsFail(r) ==
  /\ reqs[r].pc = "update"
  /\ reqs' = [reqs EXCEPT ![r] = Answer(@, "500")]
  /\ UNCHANGED <<now, sessions, meta, del, shopify, call>>
\* prisma.meta.update({ where: { id: metaConnection.id }, data: { pixelId,
\* ... } }): rejects when no row has that id any more.
SelectPixelUpdate(r) ==
  LET sid == Get(reqs[r].sessionId)
  IN /\ reqs[r].pc = "update"
     /\ IF IsSome(meta[sid]) /\ Get(meta[sid]).id = Get(reqs[r].row).id
        THEN /\ meta' = [meta EXCEPT ![sid] =
                           Some([Get(@) EXCEPT !.pixelId = Get(reqs[r].input)])]
             /\ reqs' = [reqs EXCEPT ![r] = [@ EXCEPT !.pc = "marketing", !.stored = TRUE]]
        ELSE /\ meta' = meta
             /\ reqs' = [reqs EXCEPT ![r] = Answer(@, "500")]
     /\ UNCHANGED <<now, sessions, del, shopify, call>>

\* The ways the marketing step of selectPixel can go.
MarketingOutcomes == {"ok", "noScope", "graphqlError", "exception"}
\* The marketing activity made by createFacebookCAPIActivity.
CAPIActivity(pixelId) == [ tactic |-> "CONVERSION_TRACKING", remoteId |-> pixelId ]
\* marketingWarning of the answer of selectPixel
MarketingWarning(outcome, rowLeft) ==
  CASE outcome = "ok" /\ rowLeft -> None
    [] outcome = "ok" /\ ~rowLeft -> Some(<<"Record to update not found">>)
    [] outcome = "noScope" -> Some(<<"Missing write_marketing_events scope">>)
    [] outcome = "graphqlError" -> Some(<<"Failed to create marketing activity">>)
    [] outcome = "exception" -> Some(<<"Pixel connected successfully, but marketing integration failed">>)
\* Variant of the marketing step that takes the pixel back when it fails.
SelectPixelMarketing_Revert(r) ==
  LET sid == Get(reqs[r].sessionId)
  IN /\ reqs[r].pc = "marketing"
     /\ \E outcome \in MarketingOutcomes :
          /\ shopify' = IF outcome = "ok"
                        THEN [shopify EXCEPT !.activities = Append(@, CAPIActivity(Get(reqs[r].input)))]
                        ELSE shopify
          /\ meta' = IF outcome # "ok" /\ IsSome(meta[sid])
                     THEN [meta EXCEPT ![sid] = Some([Get(@) EXCEPT !.pixelId = <<>>])]
                     ELSE meta
          /\ reqs' = [reqs EXCEPT ![r] =
                        Answer([@ EXCEPT !.warning = MarketingWarning(outcome, IsSome(meta[sid]))],
                               "success")]
     /\ UNCHANGED <<now, sessions, del, call>>
\* initializeFacebookIntegration inside its try, and the answer
\* { success: true, marketingActivity, marketingWarning }: the scope check,
\* createFacebookCAPIActivity, and prisma.meta.update of the permissions
\* (which rejects when the row is gone).
SelectPixelMarketing(r) ==
  LET sid == Get(reqs[r].sessionId)
  IN /\ reqs[r].pc = "marketing"
     /\ \E outcome \in MarketingOutcomes :
          /\ shopify' = IF outcome = "ok"
                        THEN [shopify EXCEPT !.activities = Append(@, CAPIActivity(Get(reqs[r].input)))]
                        ELSE shopify
          /\ reqs' = [reqs EXCEPT ![r] =
                        Answer([@ EXCEPT !.warning = MarketingWarning(outcome, IsSome(meta[sid]))],
                               "success")]
     /\ UNCHANGED <<now, sessions, meta, del, call>>

\* intent disconnect: authentication
DisconnectStart(r) ==
  /\ reqs[r].pc = "idle"
  /\ \E shop \in Shops :
       reqs' = [reqs EXCEPT ![r] = AuthenticateAdmin(@, "disconnect", None, shop, "delete")]
  /\ UNCHANGED <<now, sessions, meta, del, shopify, call>>
\* Variant of the catch of disconnect that reports the failure.
DisconnectDelete_Report(r) ==
  LET sid == Get(reqs[r].sessionId)
  IN /\ reqs[r].pc = "delete"
     /\ \E dbUp \in BOOLEAN :
          IF dbUp /\ IsSome(meta[sid])
          THEN /\ meta' = [meta EXCEPT ![sid] = None]
               /\ reqs' = [reqs EXCEPT ![r] = Answer([@ EXCEPT !.stored = TRUE], "disconnected")]
          ELSE /\ meta' = meta
               /\ reqs' = [reqs EXCEPT ![r] = Answer(@, "500")]
     /\ UNCHANGED <<now, sessions, del, shopify, call>>
\* prisma.meta.delete({ where: { sessionId: session.id } }): rejects when
\* there is no such row or the database fails; both branches answer
\* { success: true, disconnected: true }.
DisconnectDelete(r) ==
  LET sid == Get(reqs[r].sessionId)
  IN /\ reqs[r].pc = "delete"
     /\ \E dbUp \in BOOLEAN :
          IF dbUp /\ IsSome(meta[sid])
          THEN /\ meta' = [meta EXCEPT ![sid] = None]
               /\ reqs' = [reqs EXCEPT ![r] = Answer([@ EXCEPT !.stored = TRUE], "disconnected")]
          ELSE /\ meta' = meta
               /\ reqs' = [reqs EXCEPT ![r] = Answer([@ EXCEPT !.raised = TRUE], "disconnected")]
     /\ UNCHANGED <<now, sessions, del, shopify, call>>

\* app/uninstalled: authenticate.webhook and `if (session)`.
UninstallStart(r) ==
  /\ reqs[r].pc = "idle"
  /\ \E shop \in Shops :
       reqs' = [reqs EXCEPT ![r] =
                  LET got == [@ EXCEPT !.kind = "uninstall"]
                  IN IF shop \notin sessions THEN Answer(got, "200")
                     ELSE [got EXCEPT !.pc = "cleanMeta", !.sessionId = Some(shop)]]
  /\ UNCHANGED <<now, sessions, meta, del, shopify, call>>
\* db.meta.findMany and, when it finds rows, db.meta.deleteMany, inside
\* the try whose catch only logs.
UninstallCleanMeta(r) ==
  LET sid == Get(reqs[r].sessionId)
  IN /\ reqs[r].pc = "cleanMeta"
     /\ \E dbUp \in BOOLEAN :
          /\ meta' = IF dbUp THEN [meta EXCEPT ![sid] = None] ELSE meta
          /\ reqs' = [reqs EXCEPT ![r] = [@ EXCEPT !.pc = "deleteSessions", !.raised = ~dbUp]]
     /\ UNCHANGED <<now, sessions, del, shopify, call>>
\* Variant of the session deletion without the cascade to Meta.
UninstallDeleteSessions_NoCascade(r) ==
  LET sid == Get(reqs[r].sessionId)
  IN /\ reqs[r].pc = "deleteSessions"
     /\ \E dbUp \in BOOLEAN :
          IF dbUp
          THEN /\ sessions' = sessions \ {sid}
               /\ meta' = meta
               /\ reqs' = [reqs EXCEPT ![r] = Answer([@ EXCEPT !.stored = TRUE], "200")]
          ELSE /\ sessions' = sessions
               /\ meta' = meta
               /\ reqs' = [reqs EXCEPT ![r] = Answer(@, "threw")]
     /\ UNCHANGED <<now, del, shopify, call>>
\* db.session.deleteMany({ where: { shop } }), outside any try: the rows of
\* Meta go with their session (ON DELETE CASCADE); a rejection leaves the
\* handler by exception.
UninstallDeleteSessions(r) ==
  LET sid == Get(reqs[r].sessionId)
  IN /\ reqs[r].pc = "deleteSessions"
     /\ \E dbUp \in BOOLEAN :
          IF dbUp
          THEN /\ sessions' = sessions \ {sid}
               /\ meta' = [meta EXCEPT ![sid] = None]
               /\ reqs' = [reqs EXCEPT ![r] = Answer([@ EXCEPT !.stored = TRUE], "200")]
          ELSE /\ sessions' = sessions
               /\ meta' = meta
               /\ reqs' = [reqs EXCEPT ![r] = Answer(@, "threw")]
     /\ UNCHANGED <<now, del, shopify, call>>

\* One order delivery, with its awaits apart: authenticate.webhook, then
\* the lookup of the connection row, then the rest of the handler up to
\* the transport call.
ReceiveOrder(d) ==
  /\ d = 1
  /\ del[d].pc = "idle"
  /\ \E shop \in Shops :
       del' = [del EXCEPT ![d] =
                 Authenticate(del[d], "orders/create", shop, Some(SmallOrder(1)),
                              shop \in sessions)]
  /\ UNCHANGED <<now, sessions, meta, reqs, shopify, call>>
LookupConnection(d) ==
  /\ del[d].pc = "authenticated"
  /\ del' = [del EXCEPT ![d] = [FindUnique(del[d]) EXCEPT !.pc = "looked"]]
  /\ UNCHANGED <<now, sessions, meta, reqs, shopify, call>>
OrdersContinue(d) ==
  /\ del[d].pc = "looked"
  /\ del' = [del EXCEPT ![d] = ordersCreate(del[d], now)]
  /\ UNCHANGED <<now, sessions, meta, reqs, shopify, call>>

\* The shop has its session or was never installed; its connection row is
\* absent, waiting for a pixel, or complete.
InitDb ==
  /\ now = StartNow
  /\ sessions \in SUBSET Shops
  /\ meta \in [Shops -> {None} \cup { Some(DbRow(0, p, Token)) : p \in PixelIds }]
  /\ \A s \in Shops : s \notin sessions => meta[s] = None
  /\ del = [d \in Deliveries |-> Idle]
  /\ AtRest
NextDb ==
  \/ \E r \in Requests :
       \/ CallbackStart(r)
       \/ CallbackFindSession(r)
       \/ CallbackExchange(r)
       \/ CallbackUpsert(r)
       \/ SelectPixelStart(r)
       \/ SelectPixelFind(r)
       \/ SelectPixelDetailsFail(r)
       \/ SelectPixelUpdate(r)
       \/ SelectPixelMarketing(r)
       \/ DisconnectStart(r)
       \/ DisconnectDelete(r)
       \/ UninstallStart(r)
       \/ UninstallCleanMeta(r)
       \/ UninstallDeleteSessions(r)
  \/ \E d \in Deliveries :
       \/ ReceiveOrder(d)
       \/ LookupConnection(d)
       \/ OrdersContinue(d)
       \/ TransportOk(d)
       \/ TransportRejects(d)
       \/ TransportTimesOut(d)
SpecDb == InitDb /\ [][NextDb]_vars

(***************************************************************************)
(* MarketingIntegrationService.syncFacebookCampaigns over the marketing    *)
(* activities kept by the shop.                                            *)
(***************************************************************************)
Campaign(id, name, status) == [ id |-> id, name |-> name, status |-> status ]
\* An activity as the shop stores it after marketingActivityCreateExternal.
Activity(id, remoteId, title, status) ==
  [ id |-> id, remoteId |-> Some(remoteId), title |-> title, status |-> status ]
\* getMarketingActivities: the nodes of the query, which selects id, title,
\* status, ... and no remoteId, so `activity.remoteId` is undefined.
getMarketingActivities(store) ==
  [ i \in 1..Len(store) |->
      [ id |-> store[i].id, title |-> store[i].title, status |-> store[i].status,
        remoteId |-> None ] ]
\* mapFacebookStatusToShopify
mapFacebookStatusToShopify(facebookStatus) ==
  CASE facebookStatus \in {"ACTIVE", "active"} -> "ACTIVE"
    [] facebookStatus \in {"PAUSED", "paused"} -> "PAUSED"
    [] facebookStatus \in {"DELETED", "deleted", "ARCHIVED", "archived"} -> "DELETED"
    [] OTHER -> "UNDEFINED"
\* updateMarketingActivity(existingActivity.id, { status, title })
updateMarketingActivity(store, id, status, title) ==
  [ i \in 1..Len(store) |->
      IF store[i].id = id THEN [store[i] EXCEPT !.status = status, !.title = title]
      ELSE store[i] ]
\* createFacebookCampaignActivity(campaign.name, campaign.id, ...)
createFacebookCampaignActivity(store, campaign) ==
  Append(store, Activity(Len(store) + 1, campaign.id,
                         <<"Facebook Campaign: ">> \o campaign.name, "ACTIVE"))
\* The loop of syncFacebookCampaigns over the campaigns, with the
\* activities and the set of remote ids read before the loop.
RECURSIVE SyncLoop(_, _, _, _, _)
SyncLoop(campaigns, existingActivities, existingCampaignIds, store, results) ==
  IF campaigns = <<>> THEN [ store |-> store, results |-> results ]
  ELSE
    LET campaign == Head(campaigns)
        found == { i \in 1..Len(existingActivities) :
                     existingActivities[i].remoteId = Some(campaign.id) }
    IN IF campaign.id \in existingCampaignIds
       THEN IF found # {}
            THEN SyncLoop(Tail(campaigns), existingActivities, existingCampaignIds,
                          updateMarketingActivity(
                            store,
                            existingActivities[CHOOSE i \in found : \A j \in found : i <= j].id,
                            mapFacebookStatusToShopify(campaign.status),
                            <<"Facebook Campaign: ">> \o campaign.name),
                          [results EXCEPT !.updated = @ + 1])
            ELSE SyncLoop(Tail(campaigns), existingActivities, existingCampaignIds,
                          store, results)
       ELSE SyncLoop(Tail(campaigns), existingActivities, existingCampaignIds,
                     createFacebookCampaignActivity(store, campaign),
                     [results EXCEPT !.created = @ + 1])
syncFacebookCampaigns(store, facebookCampaigns) ==
  LET existingActivities == getMarketingActivities(store)
      existingCampaignIds ==
        { Get(existingActivities[i].remoteId) :
            i \in { j \in 1..Len(existingActivities) :
                      TruthyStr(existingActivities[j].remoteId) } }
  IN SyncLoop(facebookCampaigns, existingActivities, existingCampaignIds, store,
              [ created |-> 0, updated |-> 0, errors |-> <<>> ])

\* Campaign lists of at most MaxCampaigns campaigns.
Campaigns ==
  { Campaign(id, <<"n">>, st) : id \in { <<"c", "1">>, <<"c", "2">> }, st \in {"paused", "ARCHIVED"} }
RECURSIVE CampaignLists(_)
CampaignLists(n) ==
  IF n = 0 THEN { <<>> }
  ELSE LET shorter == CampaignLists(n - 1)
       IN shorter \cup { Append(l, c) : l \in { x \in shorter : Len(x) = n - 1 }, c \in Campaigns }
\* The shop starts without activity, or with the activity of campaign c1.
InitSync ==
  /\ now = StartNow
  /\ sessions = Shops
  /\ meta = [s \in Shops |-> None]
  /\ del = [d \in Deliveries |-> Idle]
  /\ reqs = [r \in Requests |-> IdleRequest]
  /\ shopify \in [ activities : { <<>>, <<Activity(1, <<"c", "1">>, <<"Facebook Campaign: ", "n">>, "ACTIVE")>> },
                    runs : { <<>> } ]
  /\ call = NoCall
SyncFacebookCampaigns ==
  /\ Len(shopify.runs) < MaxRuns
  /\ \E facebookCampaigns \in CampaignLists(MaxCampaigns) :
       LET out == syncFacebookCampaigns(shopify.activities, facebookCampaigns)
       IN shopify' = [ activities |-> out.store,
                       runs |-> Append(shopify.runs,
                                       [ campaigns |-> facebookCampaigns,
                                         before |-> Len(shopify.activities),
                                         results |-> out.results ]) ]
  /\ UNCHANGED <<now, sessions, meta, del, reqs, call>>
NextSync == SyncFacebookCampaigns
SpecSync == InitSync /\ [][NextSync]_vars

(***************************************************************************)
(* Properties.                                                             *)
(***************************************************************************)
Failed(dl) == dl.outcome \in {"http400", "timeout"}
Called(dl) == dl.calls # <<>>
\* The events a delivery has handed to the transport.
EventsOf(dl) ==
  { dl.calls[i].data[j] : <<i, j>> \in
      { x \in (1..Len(dl.calls)) \X (1..2) : x[2] <= Len(dl.calls[x[1]].data) } }
\* The customer record a delivery's identity attributes come from.
UpstreamCustomer(dl) ==
  IF dl.topic = "customers/create" THEN dl.payload ELSE Get(dl.payload).customer

\* C1: when the transport call of a delivery fails (HTTP 400 or timeout),
\* the handler has returned its success response, and no handler ever
\* answers with an error.
C1_FailureIsolation ==
  \A d \in Deliveries :
    /\ Failed(del[d]) => del[d].pc = "done" /\ del[d].response = "200"
    /\ del[d].response # "error"
C1_Witness ==
  \E d, e \in Deliveries :
    /\ del[d].outcome = "http400" /\ Called(del[d]) /\ del[d].response = "200"
    /\ del[e].outcome = "timeout" /\ Called(del[e]) /\ del[e].response = "200"
    /\ del[d].topic # del[e].topic

\* C2: a delivery that found no connection record, or one whose pixelId is
\* empty, makes no transport call and returns the success response.
C2_NoPixelNoCall ==
  \A d \in Deliveries :
    ( /\ del[d].pc \in {"inflight", "done"}
      /\ \/ del[d].conn = None
         \/ Get(del[d].conn).pixelId = <<>> )
    => del[d].calls = <<>> /\ del[d].pc = "done" /\ del[d].response = "200"
C2_Witness ==
  \E d, e \in Deliveries :
    /\ del[d].topic = "orders/create" /\ del[e].topic = "customers/create"
    /\ \A x \in {d, e} :
         /\ del[x].pc = "done" /\ del[x].session /\ del[x].payload # None
         /\ IsSome(del[x].conn) /\ Get(del[x].conn).pixelId = <<>>
         /\ del[x].calls = <<>> /\ del[x].response = "200"

\* C3: in every event handed to the transport, each present identity
\* attribute is the one-element list holding the SHA-256 digest of the
\* lower-cased, trimmed upstream value (of id.toString() for the external
\* id), and is not the upstream plaintext.
C3_IdentityIsDigest ==
  \A d \in Deliveries : \A ev \in EventsOf(del[d]) :
    LET c == UpstreamCustomer(del[d])
    IN /\ \A k \in IdentityKeys :
            IsSome(ev.user_data[k]) =>
              /\ IsSome(UpstreamOf(c, k))
              /\ ev.user_data[k] =
                   Some(<<Sha256Hex(Trim(ToLowerCase(Get(UpstreamOf(c, k)))))>>)
              /\ Get(ev.user_data[k])[1] # Get(UpstreamOf(c, k))
       /\ IsSome(ev.user_data.external_id) =>
            /\ IsSome(CustomerField(c, "id"))
            /\ ev.user_data.external_id =
                 Some(<<Sha256Hex(toString(Get(CustomerField(c, "id"))))>>)
            /\ Get(ev.user_data.external_id)[1] # toString(Get(CustomerField(c, "id")))
C3_Witness ==
  \E d \in Deliveries : \E ev \in EventsOf(del[d]) :
    /\ del[d].topic = "orders/create"
    /\ \A k \in IdentityKeys :
         ev.user_data[k] = Some(<<Sha256Hex(<<"a", "@", "b">>)>>)
    /\ UpstreamOf(UpstreamCustomer(del[d]), "em") = Plain
    /\ IsSome(ev.user_data.external_id)

\* C4 (as claimed): an identity attribute is present only when its upstream
\* field is present and non-empty, and no submitted identity value is the
\* digest of the empty normalized string.
C4_NeverDigestOfEmpty ==
  \A d \in Deliveries : \A ev \in EventsOf(del[d]) :
    \A k \in IdentityKeys :
      IsSome(ev.user_data[k]) =>
        /\ TruthyStr(UpstreamOf(UpstreamCustomer(del[d]), k))
        /\ Get(ev.user_data[k])[1] # Sha256Hex(<<>>)

\* Whether the handler of a finished or suspended delivery got as far as
\* the transport call: a session, a connection row with a pixel, a payload
\* and, for a checkout, at least one line item.
ReachesTransport(dl) ==
  /\ dl.session
  /\ IsSome(dl.conn) /\ Get(dl.conn).pixelId # <<>>
  /\ dl.payload # None
  /\ dl.topic = "checkouts/create" =>
       /\ IsSome(Get(dl.payload).line_items)
       /\ Get(Get(dl.payload).line_items) # <<>>

\* C5 (as claimed): every completed delivery has made exactly one transport
\* call, carrying exactly one event.
C5_ExactlyOneCall ==
  \A d \in Deliveries :
    del[d].pc = "done" =>
      Len(del[d].calls) = 1 /\ Len(del[d].calls[1].data) = 1

\* C5 (amended): a delivery whose handler has run makes exactly one
\* transport call if it has a session, a connection with a non-empty
\* pixelId and a payload (with a line item, for a checkout), and none
\* otherwise; every call carries exactly one event.
C5_OneCallWhenPipelineRuns ==
  \A d \in Deliveries :
    /\ del[d].pc \in {"inflight", "done"} =>
         Len(del[d].calls) = IF ReachesTransport(del[d]) THEN 1 ELSE 0
    /\ del[d].pc \in {"idle", "authenticated"} => del[d].calls = <<>>
    /\ \A i \in 1..Len(del[d].calls) : Len(del[d].calls[i].data) = 1
C5_Witness ==
  \E d, e \in Deliveries :
    /\ del[d].pc = "done" /\ ReachesTransport(del[d]) /\ Len(del[d].calls) = 1
    /\ del[d].topic = "orders/create"
    /\ del[e].pc = "done" /\ del[e].topic = "checkouts/create" /\ del[e].session
    /\ UsableConnection(del[e].conn) /\ del[e].payload # None
    /\ ~ReachesTransport(del[e]) /\ del[e].calls = <<>>

\* C6: no delivery ever has more than one transport call to its name, and
\* once its call has failed or timed out the delivery is finished and no
\* step issues another call for it.
C6_NoRetry ==
  [][\A d \in Deliveries :
       /\ Len(del'[d].calls) <= 1
       /\ Failed(del'[d]) => del'[d].pc = "done"
       /\ Failed(del[d]) => del'[d].calls = del[d].calls /\ del'[d].pc = "done"]_vars
C6_Witness ==
  \E d, e \in Deliveries :
    /\ del[d].pc = "done" /\ del[d].outcome = "timeout" /\ Len(del[d].calls) = 1
    /\ del[e].pc = "done" /\ del[e].outcome = "http400" /\ Len(del[e].calls) = 1

\* The dedup key of the event a delivery submitted, and the id of the
\* entity (order, checkout, customer) that triggered it.
DedupKey(dl) == dl.calls[1].data[1].event_id
EntityId(dl) == Get(dl.payload).id

\* C7 (as claimed): two deliveries of the same trigger (same topic, same
\* entity id) submit events with the same dedup key.
C7_SameTriggerSameKey ==
  \A d, e \in Deliveries :
    ( /\ Called(del[d]) /\ Called(del[e])
      /\ del[d].topic = del[e].topic
      /\ EntityId(del[d]) = EntityId(del[e]) )
    => DedupKey(del[d]) = DedupKey(del[e])

\* C8: two deliveries of the same topic for different entity ids submit
\* events with different dedup keys, whenever each was built.
C8_DistinctTriggersDistinctKeys ==
  \A d, e \in Deliveries :
    ( /\ Called(del[d]) /\ Called(del[e])
      /\ del[d].topic = del[e].topic
      /\ EntityId(del[d]) # EntityId(del[e]) )
    => DedupKey(del[d]) # DedupKey(del[e])
\* Two orders with different ids, both built in the current millisecond.
C8_Witness ==
  \E d, e \in Deliveries :
    /\ del[d].topic = "orders/create" /\ del[e].topic = "orders/create"
    /\ Called(del[d]) /\ Called(del[e])
    /\ EntityId(del[d]) # EntityId(del[e])
    /\ DedupKey(del[d]) = OrderEventId(Get(del[d].payload), now)
    /\ DedupKey(del[e]) = OrderEventId(Get(del[e].payload), now)

\* C9: for one entity id, the dedup key of the checkout event differs from
\* the dedup key of the order event, whenever each was built.
C9_CheckoutKeyDiffersFromOrderKey ==
  \A d, e \in Deliveries :
    ( /\ Called(del[d]) /\ Called(del[e])
      /\ del[d].topic = "orders/create" /\ del[e].topic = "checkouts/create"
      /\ EntityId(del[d]) = EntityId(del[e]) )
    => DedupKey(del[d]) # DedupKey(del[e])
\* An order and a checkout with the same id, built in the same millisecond.
C9_Witness ==
  \E d, e \in Deliveries :
    /\ del[d].topic = "orders/create" /\ del[e].topic = "checkouts/create"
    /\ Called(del[d]) /\ Called(del[e])
    /\ EntityId(del[d]) = EntityId(del[e])
    /\ DedupKey(del[d]) = OrderEventId(Get(del[d].payload), now)
    /\ DedupKey(del[e]) = CheckoutEventId(Get(del[e].payload), now)

\* A price string that holds no digit, such as "abc".
NotNumeric(o) == TruthyStr(o) /\ \A i \in 1..Len(Get(o)) : ~IsDigit(Get(o)[i])

\* C10 (as claimed): an order or checkout whose total_price is not numeric
\* is submitted with value 0.
C10_UnparsablePriceIsZero ==
  \A d \in Deliveries :
    ( /\ del[d].topic \in {"orders/create", "checkouts/create"}
      /\ ReachesTransport(del[d])
      /\ del[d].pc \in {"inflight", "done"}
      /\ NotNumeric(Get(del[d].payload).total_price) )
    => /\ Len(del[d].calls) = 1
       /\ del[d].calls[1].data[1].custom_data.value = Some(Num(0))


(***************************************************************************)
(* Properties of the built events.                                         *)
(***************************************************************************)
\* The line items of the order or checkout of a delivery ([] when missing).
LineItemsOf(dl) ==
  IF IsSome(Get(dl.payload).line_items) THEN Get(Get(dl.payload).line_items) ELSE <<>>
IsCommerce(dl) == dl.topic \in {"orders/create", "checkouts/create"}
\* The one event of a delivery that made its call.
EventOf(dl) == dl.calls[1].data[1]

\* The identifier the claim names for a line item: variant, else product,
\* else the line item's own id, as a string; none when all three miss.
ClaimedContentId(item) ==
  IF IsSome(item.variant_id) THEN Some(toString(Get(item.variant_id)))
  ELSE IF IsSome(item.product_id) THEN Some(toString(Get(item.product_id)))
  ELSE IF IsSome(item.id) THEN Some(toString(Get(item.id)))
  ELSE None
ClaimedContentIds(items) ==
  LET ids == [i \in 1..Len(items) |-> ClaimedContentId(items[i])]
      kept == SelectSeq(ids, LAMBDA o : IsSome(o))
  IN [i \in 1..Len(kept) |-> Get(kept[i])]

\* C11 (as claimed): content_ids of a Purchase or InitiateCheckout event
\* lists, for each line item in order, its variant id, else its product
\* id, else its own id, and nothing for a line item without any of them.
C11_ContentIdVariantFirst ==
  \A d \in Deliveries :
    (IsCommerce(del[d]) /\ Called(del[d])) =>
      EventOf(del[d]).custom_data.content_ids
        = Some(ClaimedContentIds(LineItemsOf(del[d])))

\* C12 (as claimed): num_items is the sum of the line items' quantities,
\* a missing quantity counting 1 and every given quantity counting itself.
C12_NumItemsIsQuantitySum ==
  \A d \in Deliveries :
    (IsCommerce(del[d]) /\ Called(del[d])) =>
      EventOf(del[d]).custom_data.num_items
        = Some(SumSeq([i \in 1..Len(LineItemsOf(del[d])) |->
                         IF IsSome(LineItemsOf(del[d])[i].quantity)
                         THEN Get(LineItemsOf(del[d])[i].quantity) ELSE 1]))

\* Whether the quantities of contents sum to num_items, when both are there.
ContentsSumToNumItems(ev) ==
  (IsSome(ev.custom_data.contents) /\ IsSome(ev.custom_data.num_items)) =>
    SumSeq([i \in 1..Len(Get(ev.custom_data.contents)) |->
              Get(ev.custom_data.contents)[i].quantity])
      = Get(ev.custom_data.num_items)
\* The AddToCart events over a small range of arguments.
AddToCartEvents ==
  { trackAddToCart(<<"3">>, v, q, p, <<"USD">>, None, None,
                   [ip |-> None, userAgent |-> None, sourceUrl |-> None,
                    fbc |-> None, fbp |-> None], StartNow)[1] :
      v \in {<<>>, <<"5">>}, q \in 0..3, p \in {0, 999} }

\* C13: in every event handed to the transport, and in every AddToCart
\* event, the quantities of contents sum to num_items.
C13_ContentsSumToNumItems ==
  /\ \A d \in Deliveries : \A ev \in EventsOf(del[d]) : ContentsSumToNumItems(ev)
  /\ \A ev \in AddToCartEvents : ContentsSumToNumItems(ev)
C13_Witness ==
  \E d \in Deliveries :
    /\ del[d].topic = "orders/create" /\ Called(del[d])
    /\ Len(Get(EventOf(del[d]).custom_data.contents)) = 2
    /\ EventOf(del[d]).custom_data.num_items = Some(3)


\* The creation timestamp of the upstream record of a delivery, and
\* whether it is present and parseable.
CreatedAtOf(dl) == Get(dl.payload).created_at
HasParseableCreatedAt(dl) ==
  TruthyStr(CreatedAtOf(dl)) /\ ~DateGetTime(Get(CreatedAtOf(dl))).nan
\* Whole epoch seconds of a time in milliseconds.
WholeSeconds(ms) == Num(ms \div 1000)

\* C14 (as claimed): event_time is the creation timestamp of the upstream
\* record in whole seconds when that is present and parseable, and else
\* the clock at the build in whole seconds, for all three kinds of trigger.
C14_EventTimePolicy ==
  \A d \in Deliveries :
    Called(del[d]) =>
      IF HasParseableCreatedAt(del[d])
      THEN EventOf(del[d]).event_time
             = WholeSeconds(DateGetTime(Get(CreatedAtOf(del[d]))).v)
      ELSE \E t \in StartNow..now : EventOf(del[d]).event_time = WholeSeconds(t)

\* C15: a customers/create delivery with a session, a usable connection
\* and a payload submits exactly one event, a CompleteRegistration with
\* action source website; when the customer has an email, em is the digest
\* of the lower-cased, trimmed email, and when the customer has a parseable
\* created_at, event_time is that time in whole epoch seconds.
C15_CustomerRegistrationEvent ==
  \A d \in Deliveries :
    ( /\ del[d].topic = "customers/create"
      /\ del[d].pc \in {"inflight", "done"}
      /\ ReachesTransport(del[d]) )
    => /\ Len(del[d].calls) = 1 /\ Len(del[d].calls[1].data) = 1
       /\ EventOf(del[d]).event_name = "CompleteRegistration"
       /\ EventOf(del[d]).action_source = "website"
       /\ TruthyStr(Get(del[d].payload).email) =>
            EventOf(del[d]).user_data.em
              = Some(<<Sha256Hex(Trim(ToLowerCase(Get(Get(del[d].payload).email))))>>)
       /\ HasParseableCreatedAt(del[d]) =>
            EventOf(del[d]).event_time
              = WholeSeconds(DateGetTime(Get(CreatedAtOf(del[d]))).v)
C15_Witness ==
  \E d \in Deliveries :
    /\ del[d].topic = "customers/create" /\ del[d].pc = "done"
    /\ Called(del[d])
    /\ Get(del[d].payload).email = Plain
    /\ CreatedAtOf(del[d]) = Some(IsoSecond3)
    /\ Len(del[d].calls) = 1
    /\ EventOf(del[d]).user_data.em = Some(<<Sha256Hex(<<"a", "@", "b">>)>>)
    /\ EventOf(del[d]).event_time = Num(3)

\* C16 (as claimed): in the event built for an order or a checkout, each
\* optional field is present only if the upstream field it comes from is
\* present: source URL, client IP, user agent, value, currency, order id,
\* content ids, line items and the identity attributes.
C16_NoSynthesizedFields ==
  \A d \in Deliveries :
    (IsCommerce(del[d]) /\ Called(del[d])) =>
      LET ev == EventOf(del[d])
          up == Get(del[d].payload)
      IN /\ IsSome(ev.event_source_url) => IsSome(up.landing_site_ref)
         /\ IsSome(ev.user_data.client_ip_address) => IsSome(up.browser_ip)
         /\ IsSome(ev.user_data.client_user_agent) => IsSome(UserAgentOf(up))
         /\ IsSome(ev.custom_data.value) => IsSome(up.total_price)
         /\ IsSome(ev.custom_data.currency) => IsSome(up.currency)
         /\ IsSome(ev.custom_data.order_id) => (IsSome(up.id) \/ IsSome(up.name))
         /\ IsSome(ev.custom_data.content_ids) => IsSome(up.line_items)
         /\ IsSome(ev.custom_data.contents) => IsSome(up.line_items)
         /\ \A k \in IdentityKeys :
              IsSome(ev.user_data[k]) => IsSome(UpstreamOf(up.customer, k))
         /\ IsSome(ev.user_data.external_id) => IsSome(CustomerField(up.customer, "id"))


\* A delivery whose handler has run with a session, a usable connection
\* and a payload.
HasTrigger(dl) ==
  /\ dl.pc \in {"inflight", "done"}
  /\ dl.session
  /\ IsSome(dl.conn) /\ Get(dl.conn).pixelId # <<>>
  /\ dl.payload # None
\* A checkout whose line items are absent or empty.
CheckoutWithoutItems(dl) ==
  dl.topic = "checkouts/create" /\ LineItemsOf(dl) = <<>>

\* C17 (as claimed): whatever optional fields the trigger lacks, the build
\* does not raise and the delivery reaches its transport call.
C17_BuildReachesTransport ==
  \A d \in Deliveries :
    /\ del[d].outcome # "threw"
    /\ HasTrigger(del[d]) => Len(del[d].calls) = 1

\* C17 (amended): whatever optional fields the trigger lacks, the build
\* does not raise, and the delivery reaches its transport call unless it
\* is a checkout without line items, which makes no call.
C17_BuildNeverRaises ==
  \A d \in Deliveries :
    /\ del[d].outcome # "threw"
    /\ HasTrigger(del[d]) =>
         Len(del[d].calls) = IF CheckoutWithoutItems(del[d]) THEN 0 ELSE 1
\* An order without address, line items, price, currency, creation time
\* and client details, built and handed to the transport.
C17_Witness ==
  \E d \in Deliveries :
    /\ del[d].topic = "orders/create" /\ Called(del[d])
    /\ IsSome(Get(del[d].payload).customer)
    /\ ~IsSome(Get(Get(del[d].payload).customer).default_address)
    /\ ~IsSome(Get(del[d].payload).line_items)
    /\ ~IsSome(Get(del[d].payload).client_details)
    /\ ~IsSome(Get(del[d].payload).total_price)
    /\ ~IsSome(Get(del[d].payload).currency)
    /\ ~IsSome(Get(del[d].payload).created_at)


\* C18: every delivery that was authenticated with a session eventually
\* returns the success response, whatever its lookup, build and transport
\* call come to.
C18_EventuallyAcknowledged ==
  \A d \in Deliveries :
    (del[d].pc = "authenticated")
      ~> (del[d].pc = "done" /\ del[d].response = "200")
C18_Witness ==
  \E d, e \in Deliveries :
    /\ del[d].session /\ del[d].pc = "done" /\ del[d].outcome = "timeout"
    /\ del[d].response = "200"
    /\ del[e].session /\ del[e].pc = "done" /\ del[e].calls = <<>>
    /\ del[e].response = "200"

\* C19: a delivery that issued a transport call has returned its response
\* only if that call has ended (succeeded, failed or timed out); while the
\* call is in flight no response has been returned.
C19_AckAfterTransport ==
  \A d \in Deliveries :
    /\ (Called(del[d]) /\ del[d].response # "none") =>
         del[d].outcome \in {"ok", "http400", "timeout"}
    /\ del[d].pc = "inflight" => del[d].response = "none"
C19_Witness ==
  \E d, e \in Deliveries :
    /\ Called(del[d]) /\ del[d].outcome = "ok" /\ del[d].response = "200"
    /\ Called(del[e]) /\ del[e].pc = "inflight" /\ del[e].response = "none"

\* The events the handler of a delivery builds from its own payload at
\* time t.
SoloEvents(dl, t) ==
  CASE dl.topic = "orders/create" -> OrderEvents(Get(dl.payload), t)
    [] dl.topic = "checkouts/create" -> CheckoutEvents(Get(dl.payload), t)
    [] dl.topic = "customers/create" -> CustomerEvents(Get(dl.payload), t)
\* What a delivery shows when it runs alone: the row of its own shop, at
\* most one call, to the pixel of its own shop with the events of its own
\* payload, and the success response once it is done.
SoloResult(dl) ==
  /\ (dl.pc \in {"inflight", "done"} /\ dl.session) => dl.conn = meta[dl.shop]
  /\ dl.pc \in {"inflight", "done"} =>
       IF ReachesTransport(dl)
       THEN \E t \in StartNow..now :
              dl.calls = << [ pixelId |-> Get(meta[dl.shop]).pixelId,
                              access_token |-> Get(meta[dl.shop]).accessToken,
                              data |-> SoloEvents(dl, t) ] >>
       ELSE dl.calls = <<>>
  /\ dl.response = IF dl.pc = "done" THEN "200" ELSE "none"

\* C20: in every interleaving of deliveries, for one shop or for two, a
\* step of one delivery changes nothing of any other delivery nor of the
\* sessions and the Meta table, and the call each delivery makes and the
\* response it returns are those of that delivery running alone.
C20_DeliveriesIndependent ==
  [][ /\ \A d \in Deliveries :
           del'[d] # del[d] => \A e \in Deliveries \ {d} : del'[e] = del[e]
      /\ UNCHANGED <<sessions, meta>>
      /\ \A d \in Deliveries : SoloResult(del'[d]) ]_vars
C20_Witness ==
  \E d, e \in Deliveries :
    /\ del[d].shop = "shop1" /\ del[e].shop = "shop2"
    /\ del[d].pc = "inflight" /\ del[e].pc = "inflight"
    /\ del[d].calls[1].pixelId # del[e].calls[1].pixelId

\* C21: a step of an order, checkout or customer delivery, on whichever
\* path it takes (skipped, submitted, failed), leaves the connection rows
\* and the sessions as they were.
C21_HandlersOnlyRead ==
  [][del' # del => (meta' = meta /\ sessions' = sessions)]_vars
C21_Witness ==
  \E d, e \in Deliveries :
    /\ del[d].session /\ del[d].pc = "done" /\ Failed(del[d])
    /\ del[e].session /\ del[e].pc = "done" /\ del[e].calls = <<>>
    /\ \A sh \in DOMAIN meta : IsSome(meta[sh])

\* C22: on non-empty strings that are equal after lower-casing and
\* trimming, hashPII gives the same digest, namely the digest of the
\* lower-cased, trimmed string; and the copy of hashPII in the customer
\* handler gives on every string what CAPIService.hashPII gives.
C22_HashNormalizes ==
  \A r1, r2 \in call.results :
    /\ r1.arg # <<>> => r1.out = Sha256Hex(Trim(ToLowerCase(r1.arg)))
    /\ ( /\ r1.arg # <<>> /\ r2.arg # <<>>
         /\ Trim(ToLowerCase(r1.arg)) = Trim(ToLowerCase(r2.arg)) ) => r1.out = r2.out
    /\ r1.arg = r2.arg => r1.out = r2.out
C22_Witness ==
  \E r1, r2 \in call.results :
    /\ r1.fn = "CAPIService.hashPII" /\ r2.fn = "hashPII"
    /\ r1.arg = <<" ", "A", " ">> /\ r2.arg = <<"a">>
    /\ r1.out = r2.out
    /\ \E r3 \in call.results : r3.fn = "hashPII" /\ r3.arg = r1.arg

\* C23: when the endpoint answers with a non-success response, sendEvents
\* throws an error whose text carries the error message of the response
\* body when the body has a non-empty one and the transport's own message
\* otherwise, and it returns nothing.
C23_RejectionCarriesDetail ==
  \A r \in call.results :
    (r.arg.status = "rejected" /\ IsSome(r.arg.response)) =>
      LET body == Get(r.arg.response).data
          detail == IF IsSome(body) /\ IsSome(Get(body).error)
                    THEN Get(Get(body).error).message ELSE None
      IN /\ r.out.returned = None
         /\ IsSome(r.out.thrown)
         /\ Get(r.out.thrown) = <<"CAPI request failed: ">> \o
              (IF IsSome(detail) /\ Get(detail) # <<>> THEN Get(detail) ELSE r.arg.message)
C23_Witness ==
  \E r \in call.results :
    /\ r.arg.status = "rejected" /\ IsSome(r.arg.response)
    /\ ErrorDetail(r.arg) = Some(<<"A", "a">>)
    /\ r.out.thrown = Some(<<"CAPI request failed: ", "A", "a">>)
    /\ r.out.returned = None

\* The components of a dedup key: its tokens between the "_" separators.
RECURSIVE Components(_)
Components(key) ==
  IF \A i \in 1..Len(key) : key[i] # "_" THEN <<key>>
  ELSE LET i == CHOOSE j \in 1..Len(key) :
                  key[j] = "_" /\ \A k \in 1..(j - 1) : key[k] # "_"
       IN <<SubSeq(key, 1, i - 1)>> \o Components(SubSeq(key, i + 1, Len(key)))
EntityKind(dl) ==
  CASE dl.topic = "orders/create" -> <<"order">>
    [] dl.topic = "checkouts/create" -> <<"checkout">>
    [] dl.topic = "customers/create" -> <<"customer">>
IsNumeral(s) == s # <<>> /\ \A i \in 1..Len(s) : IsDigit(s[i])

\* C24 (as claimed): the dedup key of every event submitted by an order,
\* checkout or customer delivery has five components, in this order: the
\* platform prefix, the entity kind, the entity id, an event-kind suffix
\* and the build timestamp.
C24_FiveComponents ==
  \A d \in Deliveries :
    Called(del[d]) =>
      LET c == Components(DedupKey(del[d]))
      IN /\ Len(c) = 5
         /\ c[1] = <<"shopify">>
         /\ c[2] = EntityKind(del[d])
         /\ c[3] = Interpolate(EntityId(del[d]))
         /\ c[4] # <<>> /\ ~IsNumeral(c[4])
         /\ \E t \in StartNow..now : c[5] = toString(t)

\* The steps in which a request stores into the Meta table.
Stores(r, kind) == reqs[r].kind = kind /\ ~reqs[r].stored /\ reqs'[r].stored
\* The row of a shop waits for its pixel.
AwaitsPixel(row) == IsSome(row) /\ Get(row).pixelId = <<>>
\* An OAuth callback leaves the row it stores without pixel, and only a
\* selectPixel that stores gives a row a pixel.
PixelEmptyUntilSelected ==
  /\ \A r \in Requests :
       Stores(r, "callback") => AwaitsPixel(meta'[Get(reqs[r].sessionId)])
  /\ \A sh \in Shops :
       (UsableConnection(meta'[sh]) /\ meta'[sh] # meta[sh]) =>
          \E r \in Requests : Stores(r, "selectPixel") /\ reqs[r].sessionId = Some(sh)

\* C25 (as claimed): from the step in which an OAuth callback stores the
\* row until a selectPixel stores, the row has an empty pixelId and no
\* delivery of that shop makes a transport call.
C25_NoCallWhileAwaitingPixel ==
  [][ /\ PixelEmptyUntilSelected
      /\ \A d \in Deliveries :
           (del'[d].shop \in Shops /\ AwaitsPixel(meta[del'[d].shop]))
             => del'[d].calls = del[d].calls ]_vars

\* C25 (amended): the row has an empty pixelId from the callback's store
\* until a selectPixel stores, and a delivery that looks the row up in
\* that interval makes no transport call; a delivery that read the row
\* before the callback stored still calls the pixel it read.
C25_NoCallAfterLookupWithoutPixel ==
  [][ /\ PixelEmptyUntilSelected
      /\ \A d \in Deliveries :
           /\ del'[d].calls # del[d].calls => UsableConnection(del[d].conn)
           /\ (del'[d].pc \in {"looked", "inflight", "done"} /\ ~UsableConnection(del'[d].conn))
                => del'[d].calls = <<>> ]_vars
\* A session that had selected a pixel is authenticated again, and an
\* order delivered afterwards finds the row without pixel and is skipped.
C25_Witness ==
  \E r1, r2 \in Requests :
    /\ reqs[r1].kind = "selectPixel" /\ reqs[r1].stored
    /\ reqs[r2].kind = "callback" /\ reqs[r2].stored
    /\ meta["shop1"] = Some(DbRow(0, <<>>, LongLivedToken))
    /\ del[1].pc = "done" /\ del[1].conn = meta["shop1"] /\ del[1].calls = <<>>

\* The session id carried by the state parameter of a callback request.
StateSession(rq) ==
  IF IsSome(rq.input) /\ TruthyStr(Get(rq.input).state)
  THEN DecodeState(Get(Get(rq.input).state)).sessionId
  ELSE None

\* C26: a step of the OAuth callback writes the connection row only when
\* the state parameter decodes to the id of an existing session and the
\* code exchange, the long-lived token exchange and the user lookup have
\* all succeeded; a callback that fails earlier leaves the rows as they
\* were.
C26_CallbackWritesLast ==
  [][ \A r \in Requests :
        (reqs'[r] # reqs[r] /\ reqs'[r].kind = "callback") =>
          /\ sessions' = sessions
          /\ (meta' # meta \/ reqs'[r].stored) =>
                /\ IsSome(StateSession(reqs[r]))
                /\ Get(StateSession(reqs[r])) \in sessions
                /\ reqs[r].remote = 3
                /\ reqs'[r].answer = "successPage"
          /\ reqs'[r].answer \in {"errorPage", "threw"} => meta' = meta ]_vars
\* One callback created the row; another one, whose user lookup failed,
\* ended with the error page.
C26_Witness ==
  \E r1, r2 \in Requests :
    /\ reqs[r1].kind = "callback" /\ reqs[r1].stored /\ reqs[r1].remote = 3
    /\ meta["shop1"] = Some(DbRow(r1, <<>>, LongLivedToken))
    /\ reqs[r2].kind = "callback" /\ reqs[r2].answer = "errorPage" /\ reqs[r2].remote = 2
    /\ ~reqs[r2].stored

\* C27: the marketing step that follows the store of selectPixel leaves
\* the Meta rows, and with them the stored pixelId, as they are, and the
\* action answers success; when the step failed (no marketing activity
\* was made, or the row to update was gone) the answer carries a warning.
C27_MarketingFailureKeepsPixel ==
  [][ \A r \in Requests :
        (reqs[r].pc = "marketing" /\ reqs'[r].pc # "marketing") =>
          /\ reqs[r].stored
          /\ meta' = meta
          /\ reqs'[r].pc = "done" /\ reqs'[r].answer = "success"
          /\ (shopify' = shopify \/ ~IsSome(meta[Get(reqs[r].sessionId)]))
               => TruthyStr(reqs'[r].warning) ]_vars
C27_Witness ==
  \E r \in Requests :
    /\ reqs[r].kind = "selectPixel" /\ reqs[r].stored
    /\ reqs[r].answer = "success"
    /\ reqs[r].warning = Some(<<"Missing write_marketing_events scope">>)
    /\ shopify.activities = <<>>
    /\ IsSome(meta["shop1"]) /\ Get(meta["shop1"]).pixelId = Get(reqs[r].input)

\* C28: the deletion step of the disconnect intent always answers
\* { success: true, disconnected: true }; when the deletion went through,
\* the session has no connection row left, and when it raised, the rows
\* and the sessions are as they were.
C28_DisconnectAlwaysSucceeds ==
  [][ \A r \in Requests :
        (reqs[r].pc = "delete" /\ reqs'[r].pc # "delete") =>
          /\ reqs'[r].pc = "done" /\ reqs'[r].answer = "disconnected"
          /\ sessions' = sessions
          /\ IF reqs'[r].raised THEN meta' = meta
             ELSE /\ IsSome(meta[Get(reqs[r].sessionId)])
                  /\ meta' = [meta EXCEPT ![Get(reqs[r].sessionId)] = None] ]_vars
C28_Witness ==
  \E r1, r2 \in Requests :
    /\ reqs[r1].kind = "disconnect" /\ reqs[r1].stored /\ ~reqs[r1].raised
    /\ reqs[r1].answer = "disconnected"
    /\ reqs[r2].kind = "disconnect" /\ reqs[r2].raised /\ ~reqs[r2].stored
    /\ reqs[r2].answer = "disconnected"
    /\ meta["shop1"] = None /\ "shop1" \in sessions

\* A delivery of app/uninstalled that found the session of its shop and
\* has ended.
UninstalledWithSession(rq) ==
  rq.kind = "uninstall" /\ rq.pc = "done" /\ IsSome(rq.sessionId)
\* A delivery of app/uninstalled that finds no session changes nothing
\* and returns the success response.
FurtherUninstallIsNoOp ==
  \A r \in Requests :
    (reqs[r].pc = "idle" /\ reqs'[r].kind = "uninstall" /\ sessions = {}) =>
      /\ reqs'[r].pc = "done" /\ reqs'[r].answer = "200"
      /\ UNCHANGED <<sessions, meta>>

KnownBefore(run) ==
  { i \in 1..Len(run.campaigns) :
      \E j \in 1..run.before : shopify.activities[j].remoteId = Some(run.campaigns[i].id) }

\* C30 (as claimed): a run of syncFacebookCampaigns updates, and does not
\* create, an activity for every campaign whose id is the remote id of an
\* activity that existed before the run; so a second run on the same list
\* creates nothing.
C30_SyncUpdatesExisting ==
  \A k \in 1..Len(shopify.runs) :
    LET run == shopify.runs[k]
    IN /\ run.results.updated = Cardinality(KnownBefore(run))
       /\ run.results.created = Len(run.campaigns) - Cardinality(KnownBefore(run))
       /\ (k > 1 /\ shopify.runs[k - 1].campaigns = run.campaigns) => run.results.created = 0

====
